---- MODULE Spec2Model ----
(***************************************************************************)
(* Model of the chat client's message pipeline (ChatService.sendMessage    *)
(* in its snapshots), of the chat page that drives it (Index.tsx) with its *)
(* configuration panel (ConfigPanel.tsx), and of the relay transport       *)
(* (relay ChatService and relay backend).                                  *)
(*                                                                         *)
(* A user message is a sequence of lower-cased words; a keyword phrase is  *)
(* contained in a message when its words occur consecutively in it.        *)
(***************************************************************************)
EXTENDS Integers, Sequences, FiniteSets, TLC

VARIABLES
  variant,          \* which snapshot of ChatService is deployed
  config,           \* ChatService.config (NoConfig until initialize)
  n8nService,       \* ChatService.n8nService is set (n8n snapshot)
  pc,               \* position of the sendMessage run
  caller,           \* who awaits the run: "api" or "page"
  message,          \* sendMessage's message argument
  sentHistory,      \* sendMessage's conversationHistory argument
  shouldSearch,     \* classifier output: search intent
  timeQuery,        \* classifier output: time intent
  searchResults,    \* local searchResults of the run
  toolResults,      \* local toolResults of the run
  searchCalls,      \* search provider invocations in this run
  timeCalls,        \* time tool invocations in this run
  completionCalls,  \* completion requests issued in this run
  searchReply,      \* what the search endpoint answered to the call just made
  completionReply,  \* what the completion endpoint answered
  outbound,         \* the messages array of the completion request
  failedAt,         \* step of the run that threw ("none" if none)
  error,            \* the error sendMessage rejected with
  result,           \* the ChatResponse sendMessage resolved with
  messages,         \* Index: messages state (conversation history)
  isLoading,        \* Index: isLoading state
  isConnected,      \* Index: isConnected state (isBackendConnected)
  toast,            \* Index: last toast shown
  lastSend,         \* Index: the send that settled last, as its handler saw it
  initPending,      \* Index: initializeServices calls still awaiting
  openaiApiKey,     \* relay page: config.openaiApiKey is non-empty
  availableTools,   \* ChatService: this.availableTools (names of the tools)
  showConfig,       \* Index: showConfig state (the panel is mounted)
  indexConfig,      \* Index: config state
  localStorage,     \* the browser's localStorage
  atStartup,        \* Index: the page has just loaded
  localConfig,      \* ConfigPanel: localConfig state
  isValid,          \* ConfigPanel: isValid state
  onSaveArg,        \* ConfigPanel: the Config last handed to onSave
  pageCrashed,      \* an effect threw and React unmounted the page
  sockets,            \* relay client: the WebSockets it created
  backendConnection,  \* relay client: this.backendConnection
  serviceConfig,      \* relay client: this.serviceConfig
  pendingMessages,    \* relay client: keys of this.pendingMessages
  messageCounter,     \* relay client: this.messageCounter
  requests,           \* relay client: the promise and timer of each sendMessage
  toBackend,          \* frames in flight to the backend, per connection
  toClient,           \* frames in flight to the clients, per connection
  clientSessions,     \* relay backend: clientSessions
  handlers,           \* relay backend: 'message' handlers suspended at an await
  braveMcpProcess,    \* relay backend: the tool subprocess is alive
  braveMcpTools,      \* relay backend: the subprocess's tools are registered
  rawSent,            \* frames written so far by other clients of the backend
  calls               \* calls made so far to the relay client's public methods

svcVars == <<variant, config, n8nService, pc, caller, message, sentHistory,
             shouldSearch, timeQuery, searchResults, toolResults,
             searchCalls, timeCalls, completionCalls, searchReply,
             completionReply, outbound, failedAt, error, result>>
panelVars == <<showConfig, indexConfig, localStorage, atStartup, localConfig,
               isValid, onSaveArg, pageCrashed>>
pageVars == <<messages, isLoading, isConnected, toast, lastSend, initPending,
              openaiApiKey, availableTools, panelVars>>
relayVars == <<sockets, backendConnection, serviceConfig, pendingMessages,
               messageCounter, requests, toBackend, toClient, clientSessions,
               handlers, braveMcpProcess, braveMcpTools, rawSent, calls>>
vars == <<svcVars, pageVars, relayVars>>

----------------------------------------------------------------------------
(* Bounds *)

MaxWords == 2
MaxItems == 2
MaxSends == 2
MaxInits == 1
MaxSockets == 3
MaxRequests == 2
MaxCalls == 4
MaxClicks == 5
MaxRawClients == 1
MaxRawFrames == 2
MaxHistory == 7

----------------------------------------------------------------------------
(* Messages *)

Vocabulary == {"hola", "?", "busca", "hora", "diferencia", "claude", "qué"}

SeqsUpTo(S, n) == UNION {[1..k -> S] : k \in 0..n}

Messages == SeqsUpTo(Vocabulary, MaxWords)

\* String.prototype.includes on the lower-cased message, for a keyword phrase
Includes(msg, kw) ==
  \E i \in 1..(Len(msg) - Len(kw) + 1) : SubSeq(msg, i, i + Len(kw) - 1) = kw

IncludesAny(msg, kws) == \E kw \in kws : Includes(msg, kw)

\* String.prototype.startsWith
StartsWith(msg, kw) == Len(msg) >= Len(kw) /\ SubSeq(msg, 1, Len(kw)) = kw

\* String.prototype.trim() leaves something
NonBlank(msg) == Len(msg) > 0

----------------------------------------------------------------------------
(* Intent classification *)

timeKeywords ==
  {<<"hora">>, <<"tiempo">>, <<"reloj">>, <<"horario">>, <<"zona", "horaria">>,
   <<"timezone">>, <<"qué", "hora", "es">>, <<"hora", "actual">>,
   <<"diferencia", "horaria">>, <<"tiempo", "en">>}

\* a classifier that looks for the keyword only at the start of the message
extractTimeIntentAtStart(msg) == \E kw \in timeKeywords : StartsWith(msg, kw)

\* timeKeywords.some(keyword => messageLower.includes(keyword))
extractTimeIntent(msg) == IncludesAny(msg, timeKeywords)

interrogatives ==
  {<<"qué">>, <<"quién">>, <<"cuál">>, <<"cómo">>, <<"dónde">>, <<"cuándo">>,
   <<"por", "qué">>}

specificNames ==
  {<<"claude">>, <<"gpt">>, <<"anthropic">>, <<"openai">>, <<"microsoft">>,
   <<"google">>, <<"apple">>, <<"tesla">>, <<"bitcoin">>, <<"ethereum">>}

\* part_000: extractSearchIntent
mockSearchKeywords ==
  {<<"busca">>, <<"buscar">>, <<"encuentra">>, <<"encontrar">>, <<"qué", "es">>,
   <<"quién", "es">>, <<"cuál", "es">>, <<"cómo">>, <<"dónde">>, <<"cuándo">>,
   <<"por", "qué">>, <<"información", "sobre">>, <<"noticias">>, <<"últimas">>,
   <<"actualidad">>, <<"precio">>, <<"cotización">>}

extractSearchIntent(msg) == IncludesAny(msg, mockSearchKeywords)

\* ChatService.ts: shouldPerformSearch
searchKeywords ==
  {<<"busca">>, <<"buscar">>, <<"busco">>, <<"encuentra">>, <<"encontrar">>,
   <<"información">>, <<"info">>, <<"qué", "es">>, <<"quién", "es">>,
   <<"cuál", "es">>, <<"cómo">>, <<"dónde">>, <<"cuándo">>, <<"por", "qué">>,
   <<"dame">>, <<"dime">>, <<"explícame">>, <<"cuéntame">>, <<"detalles">>,
   <<"noticias">>, <<"últimas">>, <<"actualidad">>, <<"precio">>,
   <<"cotización">>, <<"claude">>, <<"gpt">>, <<"anthropic">>, <<"openai">>,
   <<"inteligencia", "artificial">>, <<"ia">>, <<"tecnología">>, <<"empresa">>,
   <<"producto">>, <<"acerca", "de">>, <<"sobre">>, <<"habla">>, <<"resume">>,
   <<"resumir">>}

shouldPerformSearch(msg) ==
  LET hasQuestionWords == Includes(msg, <<"?">>)
                          \/ \E w \in interrogatives : StartsWith(msg, w)
      hasSearchKeywords == IncludesAny(msg, searchKeywords)
      mentionsSpecificNames == IncludesAny(msg, specificNames)
  IN hasSearchKeywords \/ hasQuestionWords \/ mentionsSpecificNames

\* WebSearchHandler.extractSearchIntent
explicitSearchKeywords ==
  {<<"busca">>, <<"buscar">>, <<"encuentra">>, <<"encontrar">>,
   <<"información", "sobre">>, <<"información", "acerca", "de">>,
   <<"datos", "sobre">>, <<"noticias", "sobre">>, <<"noticias", "de">>,
   <<"últimas", "noticias">>, <<"qué", "pasó", "con">>,
   <<"qué", "está", "pasando", "con">>, <<"actualidad", "sobre">>,
   <<"tendencias", "de">>, <<"precio", "de">>, <<"cotización", "de">>,
   <<"valor", "de">>}

generalQueryKeywords ==
  {<<"qué", "es">>, <<"quién", "es">>, <<"cuál", "es">>, <<"cómo", "funciona">>,
   <<"cómo", "se", "hace">>, <<"dónde", "está">>, <<"cuándo", "ocurrió">>,
   <<"por", "qué">>, <<"para", "qué", "sirve">>, <<"cuéntame", "sobre">>,
   <<"explícame">>, <<"háblame", "de">>, <<"detalles", "sobre">>,
   <<"características", "de">>, <<"especificaciones", "de">>,
   <<"reviews", "de">>, <<"opiniones", "sobre">>, <<"comparación", "entre">>}

currentTopics ==
  {<<"clima">>, <<"weather">>, <<"tiempo">>, <<"temperatura">>, <<"noticias">>,
   <<"news">>, <<"actualidad">>, <<"eventos">>, <<"precio">>, <<"cotización">>,
   <<"stock">>, <<"mercado">>, <<"resultado">>, <<"partido">>,
   <<"elecciones">>, <<"política">>}

specificEntities ==
  {<<"claude">>, <<"gpt">>, <<"openai">>, <<"microsoft">>, <<"apple">>,
   <<"google">>, <<"tesla">>, <<"bitcoin">>, <<"ethereum">>, <<"iphone">>,
   <<"android">>, <<"windows">>, <<"linux">>, <<"mac">>, <<"ios">>,
   <<"python">>, <<"javascript">>, <<"react">>, <<"vue">>, <<"angular">>,
   <<"node">>}

handlerExtractSearchIntent(msg) ==
  LET hasExplicitSearch == IncludesAny(msg, explicitSearchKeywords)
      hasGeneralQuery == IncludesAny(msg, generalQueryKeywords)
      hasCurrentTopic == IncludesAny(msg, currentTopics)
      isQuestion == Includes(msg, <<"?">>)
                    \/ (\E w \in interrogatives : StartsWith(msg, w))
                    \/ StartsWith(msg, <<"para", "qué">>)
      mentionsSpecificEntity == IncludesAny(msg, specificEntities)
  IN hasExplicitSearch
     \/ (hasGeneralQuery /\ (isQuestion \/ mentionsSpecificEntity))
     \/ (isQuestion /\ hasCurrentTopic)
     \/ (isQuestion /\ mentionsSpecificEntity)

Variants == {"mock", "inline", "modular", "n8n"}

\* the search classifier each snapshot's sendMessage calls
wantsSearch(v, msg) ==
  CASE v = "mock" -> extractSearchIntent(msg)
    [] v = "modular" -> handlerExtractSearchIntent(msg)
    [] OTHER -> shouldPerformSearch(msg)

----------------------------------------------------------------------------
(* Configuration *)

Providers == {"brave", "pskill9", "docker", "other"}

NoConfig == [null |-> TRUE]

Config ==
  [enableTimeServer : BOOLEAN, enableWebSearch : BOOLEAN,
   webSearchProvider : Providers, braveApiKey : BOOLEAN,
   useN8nBackend : BOOLEAN, n8nWebhookUrl : BOOLEAN]

\* the configurations a snapshot's Config interface can carry; a field the
\* interface lacks reads as undefined (falsy)
\* (the Brave key is enumerated with the Brave provider only, the webhook URL
\* with useN8nBackend only: no code reads them otherwise)
ConfigsOf(v) ==
  LET Canonical == {c \in Config :
                      /\ (c.braveApiKey => c.webSearchProvider = "brave")
                      /\ (c.n8nWebhookUrl => c.useN8nBackend)}
  IN CASE v = "mock" ->
            {c \in Canonical : ~c.enableWebSearch /\ c.webSearchProvider = "other"
                               /\ ~c.useN8nBackend}
       [] v = "n8n" -> Canonical
       [] OTHER -> {c \in Canonical : ~c.useN8nBackend}

----------------------------------------------------------------------------
(* Search providers *)

SearchResult(p) == [provider |-> p]

Items(n, p) == [i \in 1..n |-> SearchResult(p)]

Min(a, b) == IF a < b THEN a ELSE b

NoReply == [kind |-> "none", n |-> 0]

\* what the search endpoint can answer: n is the number of extractable items
SearchReplies ==
  {[kind |-> k, n |-> 0] : k \in {"network_error", "http_error", "parse_error"}}
  \cup {[kind |-> "ok", n |-> n] : n \in 0..MaxItems}

\* outcome of a search function: it returns results or throws; requested
\* tells whether an HTTP request was issued
Returns(rs, req) == [threw |-> FALSE, results |-> rs, requested |-> req]
Throws(req) == [threw |-> TRUE, results |-> <<>>, requested |-> req]

getFallbackResults == <<SearchResult("Sistema de fallback")>>

performBraveSearch(cfg, r) ==
  IF ~cfg.braveApiKey THEN Returns(<<>>, FALSE)
  ELSE IF r.kind = "ok" THEN Returns(Items(r.n, "Brave Search API"), TRUE)
  ELSE Returns(<<>>, TRUE)

parseGoogleResults(r) == Items(Min(r.n, 3), "pskill9 Google Scraping")

performPskill9Search(r) ==
  IF r.kind # "ok" THEN Returns(getFallbackResults, TRUE)
  ELSE IF Len(parseGoogleResults(r)) = 0 THEN Returns(getFallbackResults, TRUE)
  ELSE Returns(parseGoogleResults(r), TRUE)

performDockerSearch == Returns(getFallbackResults, FALSE)

Uncaught(out) == out

\* try { switch (provider) ... } catch { return [] }
Caught(out) == IF out.threw THEN Returns(<<>>, out.requested) ELSE out

performWebSearch(cfg, r) ==
  IF cfg = NoConfig THEN Returns(<<>>, FALSE)
  ELSE Caught(CASE cfg.webSearchProvider = "brave" -> performBraveSearch(cfg, r)
                [] cfg.webSearchProvider = "pskill9" -> performPskill9Search(r)
                [] cfg.webSearchProvider = "docker" -> performDockerSearch
                [] OTHER -> Returns(<<>>, FALSE))

\* modular snapshot: SearchProviderFactory and the provider classes
BraveSearchProvider(cfg, r) ==
  IF ~cfg.braveApiKey THEN Returns(<<>>, FALSE)
  ELSE IF r.kind = "ok" THEN Returns(Items(r.n, "Brave Search API"), TRUE)
  ELSE Returns(<<>>, TRUE)

Pskill9SearchProvider(r) ==
  IF r.kind # "ok" THEN Returns(<<>>, TRUE)
  ELSE Returns(Items(Min(r.n, 3), "pskill9/web-search (Google scraping)"), TRUE)

DockerSearchProvider == Returns(<<>>, FALSE)

createProviderAndSearch(cfg, r) ==
  CASE cfg.webSearchProvider = "brave" -> BraveSearchProvider(cfg, r)
    [] cfg.webSearchProvider = "pskill9" -> Pskill9SearchProvider(r)
    [] cfg.webSearchProvider = "docker" -> DockerSearchProvider
    [] OTHER -> Throws(FALSE)

modularPerformWebSearchNoCatch(cfg, r) ==
  IF cfg = NoConfig THEN Returns(<<>>, FALSE)
  ELSE createProviderAndSearch(cfg, r)

modularPerformWebSearch(cfg, r) ==
  IF cfg = NoConfig THEN Returns(<<>>, FALSE)
  ELSE Caught(createProviderAndSearch(cfg, r))

\* mock snapshot: performSearch resolves with two simulated results
performSearch == Returns(Items(2, "undefined"), FALSE)

\* n8n snapshot, local path
n8nFallbackResults == <<SearchResult("Sistema de búsqueda web")>>

generateClaudeResults(msg) ==
  IF Includes(msg, <<"claude">>) THEN Items(3, "pskill9 Web Search")
  ELSE n8nFallbackResults

n8nPerformWebSearch(cfg, msg, r) ==
  IF cfg = NoConfig THEN Returns(<<>>, FALSE)
  ELSE Caught(CASE cfg.webSearchProvider = "brave" -> performBraveSearch(cfg, r)
                [] cfg.webSearchProvider = "pskill9" ->
                     Returns(generateClaudeResults(msg), FALSE)
                [] cfg.webSearchProvider = "docker" ->
                     Returns(n8nFallbackResults, FALSE)
                [] OTHER -> Returns(<<>>, FALSE))

\* earlier snapshot of ChatService.ts: every failure path answers with two
\* placeholder results that carry the provider's display name
earlierProviderNames(p) ==
  CASE p = "pskill9" -> "pskill9/web-search"
    [] p = "brave" -> "Brave Search API"
    [] p = "docker" -> "Docker Search Server"

earlierGetFallbackResults(p) == Items(2, earlierProviderNames(p))

earlierParseGoogleResults(r) ==
  IF Min(r.n, 3) > 0 THEN Items(Min(r.n, 3), "pskill9/web-search (Google scraping)")
  ELSE earlierGetFallbackResults("pskill9")

earlierPerformPskill9Search(r) ==
  IF r.kind # "ok" THEN Returns(earlierGetFallbackResults("pskill9"), TRUE)
  ELSE Returns(earlierParseGoogleResults(r), TRUE)

earlierPerformBraveSearch(cfg, r) ==
  IF ~cfg.braveApiKey THEN Returns(earlierGetFallbackResults("brave"), FALSE)
  ELSE IF r.kind = "ok" THEN Returns(Items(r.n, "Brave Search API"), TRUE)
  ELSE Returns(earlierGetFallbackResults("brave"), TRUE)

earlierPerformDockerSearch == Returns(earlierGetFallbackResults("docker"), FALSE)

earlierPerformWebSearch(cfg, r) ==
  IF cfg = NoConfig THEN Returns(<<>>, FALSE)
  ELSE Caught(CASE cfg.webSearchProvider = "brave" ->
                     earlierPerformBraveSearch(cfg, r)
                [] cfg.webSearchProvider = "pskill9" ->
                     earlierPerformPskill9Search(r)
                [] cfg.webSearchProvider = "docker" -> earlierPerformDockerSearch
                [] OTHER -> Returns(<<>>, FALSE))

\* the search call each snapshot's sendMessage awaits
SearchOf(v, cfg, msg, r) ==
  CASE v = "mock" -> performSearch
    [] v = "earlier" -> earlierPerformWebSearch(cfg, r)
    [] v = "modular" -> modularPerformWebSearch(cfg, r)
    [] v = "n8n" -> n8nPerformWebSearch(cfg, msg, r)
    [] OTHER -> performWebSearch(cfg, r)

\* the condition under which each snapshot's sendMessage dispatches the search
SearchDispatch(v, cfg, flagged) ==
  IF v = "mock" THEN flagged ELSE flagged /\ cfg.enableWebSearch

----------------------------------------------------------------------------
(* Time tool *)

ToolResult(t) == [tool |-> t]

handleTimeQuery(msg) ==
  IF Includes(msg, <<"diferencia">>) THEN <<ToolResult("getTimeDifference")>>
  ELSE <<ToolResult("getCurrentTime")>>

\* a run that never calls the time tool
TimeDispatchNever(cfg, flagged) == FALSE

TimeDispatch(cfg, flagged) == flagged /\ cfg.enableTimeServer

----------------------------------------------------------------------------
(* Prompt building *)

\* A prompt is the sequence of its parts: the user's words and the fixed
\* blocks of text, each block named by its heading.

\* Array.prototype.slice(0, n)
sliceFirst(h, n) == SubSeq(h, 1, Min(n, Len(h)))

\* Array.prototype.slice(-n)
slice(h, n) == SubSeq(h, IF Len(h) > n THEN Len(h) - n + 1 ELSE 1, Len(h))

\* msg => ({ role: msg.role, content: msg.content })
toRoleContent(msg) == [role |-> msg.role, content |-> msg.content]

map(h) == [i \in 1..Len(h) |-> toRoleContent(h[i])]

when(cond, part) == IF cond THEN <<part>> ELSE <<>>

\* PromptBuilder (modular snapshot)
buildSystemPrompt(sr, tr) ==
  <<"Eres un asistente de chat inteligente",
    "INSTRUCCIONES CRÍTICAS DE BÚSQUEDA WEB">>
  \o when(Len(sr) > 0, "TIENES RESULTADOS DE BÚSQUEDA WEB ACTUALIZADOS")
  \o when(Len(tr) > 0, "HERRAMIENTAS MCP UTILIZADAS")

NotaSinBusqueda == "NOTA: No se realizaron búsquedas web"

buildUserPrompt(msg, sr, tr) ==
  <<"Pregunta del usuario:">> \o msg
  \o when(Len(sr) > 0, "RESULTADOS DE BÚSQUEDA WEB DISPONIBLES")
  \o when(Len(sr) > 0, "INSTRUCCIÓN OBLIGATORIA")
  \o when(Len(tr) > 0, "RESULTADOS DE HERRAMIENTAS MCP")
  \o when(Len(sr) = 0 /\ Len(tr) = 0, NotaSinBusqueda)

buildMessagesArray(h, msg, sr, tr) ==
  <<[role |-> "system", content |-> buildSystemPrompt(sr, tr)]>>
  \o map(slice(h, 4))
  \o <<[role |-> "user", content |-> buildUserPrompt(msg, sr, tr)]>>

\* ChatService.ts (inline snapshot)
ReglaSinResultados == "4. Si NO tienes resultados de búsqueda, dilo claramente"

buildEnhancedPrompt(msg, sr, tr) ==
  msg
  \o when(Len(sr) > 0, "RESULTADOS DE BÚSQUEDA WEB REAL")
  \o when(Len(sr) > 0, "IMPORTANTE: Usa esta información de búsqueda")
  \o when(Len(tr) > 0, "HERRAMIENTAS MCP UTILIZADAS")

inlineMessages(h, msg, sr, tr) ==
  <<[role |-> "system",
     content |-> <<"Eres un asistente inteligente", "INSTRUCCIONES CRÍTICAS",
                   ReglaSinResultados, "Herramientas disponibles">>]>>
  \o map(slice(h, 6))
  \o <<[role |-> "user", content |-> buildEnhancedPrompt(msg, sr, tr)]>>

\* part_000 (mock snapshot)
contextualInfo(sr, tr) ==
  when(Len(sr) > 0, "Resultados de búsqueda")
  \o when(Len(tr) > 0, "Información de herramientas MCP")

mockMessages(h, msg, sr, tr) ==
  <<[role |-> "system",
     content |-> <<"Eres un asistente inteligente",
                   "Herramientas disponibles">>]>>
  \o map(slice(h, 6))
  \o <<[role |-> "user", content |-> msg \o contextualInfo(sr, tr)]>>

\* part_006 (n8n snapshot, local path)
createSystemPrompt(sr, tr) ==
  <<"Eres un asistente inteligente", "REGLAS CRÍTICAS">>
  \o when(Len(sr) > 0, "ATENCIÓN: TIENES RESULTADOS DE BÚSQUEDA DISPONIBLES")
  \o when(Len(tr) > 0, "HERRAMIENTAS MCP DISPONIBLES")

createUserPrompt(msg, sr, tr) ==
  <<"Pregunta:">> \o msg
  \o when(Len(sr) > 0, "DATOS DE BÚSQUEDA WEB (USAR OBLIGATORIAMENTE)")
  \o when(Len(sr) > 0, "INSTRUCCIONES ESPECÍFICAS")
  \o when(Len(tr) > 0, "RESULTADOS DE HERRAMIENTAS")

buildMessagesWithSearchContext(msg, h, sr, tr) ==
  <<[role |-> "system", content |-> createSystemPrompt(sr, tr)]>>
  \o map(slice(h, 4))
  \o <<[role |-> "user", content |-> createUserPrompt(msg, sr, tr)]>>

\* the messages array each snapshot's sendMessage posts
messagesOf(v, h, msg, sr, tr) ==
  CASE v = "mock" -> mockMessages(h, msg, sr, tr)
    [] v = "modular" -> buildMessagesArray(h, msg, sr, tr)
    [] v = "n8n" -> buildMessagesWithSearchContext(msg, h, sr, tr)
    [] OTHER -> inlineMessages(h, msg, sr, tr)

----------------------------------------------------------------------------
(* Completion endpoint *)

Statuses == {200, 401, 500}

Ok(status) == status >= 200 /\ status <= 299

\* response bodies: not JSON, JSON null, {}, {error: {message}},
\* {choices: []}, {choices: [{message: {}}]}, {choices: [{message: {content}}]}
Bodies ==
  {"unparseable", "null", "object", "error_with_message", "empty_choices",
   "no_content", "content"}

CompletionReplies ==
  {[net |-> "error", status |-> 0, body |-> "none"]}
  \cup {[net |-> "ok", status |-> s, body |-> b] : s \in Statuses, b \in Bodies}

NoCompletion == [net |-> "none", status |-> 0, body |-> "none"]

NoError == [name |-> "none", status |-> 0, text |-> ""]

Err(name, status, text) == [name |-> name, status |-> status, text |-> text]

Placeholder == <<"No se pudo generar una respuesta.">>
Reply == <<"respuesta">>

Resolves(content) == [threw |-> FALSE, error |-> NoError, content |-> content]
Rejects(e) == [threw |-> TRUE, error |-> e, content |-> <<>>]

\* response.json().catch(() => ({}))
errorDataOf(body) == IF body = "unparseable" THEN "object" ELSE body

\* errorData.error?.message
errorMessageOf(errorData) ==
  IF errorData = "error_with_message" THEN "provider message" ELSE ""

\* sendMessage from the fetch of the completion endpoint to the content
complete(reply) ==
  IF reply.net = "error" THEN Rejects(Err("TypeError", 0, "Failed to fetch"))
  ELSE IF ~Ok(reply.status) THEN
    LET errorData == errorDataOf(reply.body) IN
    IF errorData = "null"
    THEN Rejects(Err("TypeError", 0, "Cannot read properties of null"))
    ELSE Rejects(Err("Error", reply.status,
                     IF errorMessageOf(errorData) # ""
                     THEN errorMessageOf(errorData) ELSE "Unknown error"))
  ELSE IF reply.body = "unparseable"
    THEN Rejects(Err("SyntaxError", 0, "Unexpected token"))
  ELSE IF reply.body \notin {"empty_choices", "no_content", "content"}
    THEN Rejects(Err("TypeError", 0, "Cannot read properties of undefined"))
  ELSE Resolves(IF reply.body = "content" THEN Reply ELSE Placeholder)

NoResult ==
  [content |-> <<>>, hasSearchResults |-> FALSE, searchResults |-> <<>>,
   hasTools |-> FALSE, tools |-> <<>>]

\* { content, searchResults: length > 0 ? searchResults : undefined, tools: ... }
ChatResponse(content, sr, tr) ==
  [content |-> content,
   hasSearchResults |-> Len(sr) > 0, searchResults |-> sr,
   hasTools |-> Len(tr) > 0, tools |-> tr]

----------------------------------------------------------------------------
(* Workflow webhook (n8n snapshot) *)

N8nShapes == {"string", "object", "array", "other", "null"}

N8nReplies ==
  {[net |-> "error", status |-> 0, shape |-> "none", nSources |-> 0, nTools |-> 0]}
  \cup {[net |-> "ok", status |-> 500, shape |-> "other", nSources |-> 0,
         nTools |-> 0]}
  \cup {[net |-> "ok", status |-> 200, shape |-> "unparseable", nSources |-> 0,
         nTools |-> 0]}
  \cup {[net |-> "ok", status |-> 200, shape |-> sh, nSources |-> 0, nTools |-> 0] :
          sh \in {"string", "other", "null"}}
  \cup {[net |-> "ok", status |-> 200, shape |-> sh, nSources |-> a, nTools |-> b] :
          sh \in {"object", "array"}, a \in 0..1, b \in 0..1}

N8nError == Err("Error", 0, "Error conectando con n8n")

N8nResolves(resp) == [threw |-> FALSE, response |-> resp]
N8nRejects == [threw |-> TRUE, response |-> NoResult]

\* N8nWebhookService.processN8nResponse; a reply without sources or tools
\* yields data.searchResults || data.sources || []
processN8nResponse(r) ==
  CASE r.shape = "string" ->
         N8nResolves([NoResult EXCEPT !.content = Reply])
    [] r.shape \in {"object", "array"} ->
         N8nResolves([content |-> Reply,
                      hasSearchResults |-> TRUE,
                      searchResults |-> Items(r.nSources, "n8n"),
                      hasTools |-> TRUE,
                      tools |-> [i \in 1..r.nTools |-> ToolResult("n8n")]])
    [] r.shape = "null" -> N8nRejects
    [] OTHER -> N8nResolves([NoResult EXCEPT !.content = <<"json">>])

\* N8nWebhookService.sendMessage
n8nSendMessage(r) ==
  IF r.net = "error" \/ ~Ok(r.status) \/ r.shape = "unparseable" THEN N8nRejects
  ELSE processN8nResponse(r)

\* the ChatResponse sendMessage builds from the webhook's response
n8nChatResponse(resp) ==
  [content |-> resp.content,
   hasSearchResults |-> TRUE, searchResults |-> resp.searchResults,
   hasTools |-> TRUE, tools |-> resp.tools]

----------------------------------------------------------------------------
(* The chat page: what its asynchronous continuations do to its state *)

NoSend == [outcome |-> "none", before |-> <<>>, input |-> <<>>]

userMessage(input) == [role |-> "user", content |-> input]

assistantMessage(content) == [role |-> "assistant", content |-> content]

\* number of user messages submitted so far
sends == Cardinality({i \in DOMAIN messages : messages[i].role = "user"})

\* a catch block that takes the submitted message back out of the history
catchSendErrorDroppingLast(title) ==
  /\ toast' = title
  /\ messages' = SubSeq(messages, 1, Len(messages) - 1)

\* handleSendMessage: catch (error) { toast(...) }
catchSendError(title) ==
  /\ toast' = title
  /\ UNCHANGED messages

\* initializeAndConnectBackend after its await: the page that called
\* initialize learns the outcome
initSettled(who, ok) ==
  IF who = "page"
  THEN /\ isConnected' = ok
       /\ toast' = IF ok THEN "Conectado al Backend"
                   ELSE "Error de conexión al Backend"
       /\ isLoading' = FALSE
       /\ UNCHANGED <<messages, lastSend, initPending, openaiApiKey, availableTools, panelVars>>
  ELSE UNCHANGED pageVars

\* handleSendMessage of the relay page after its await: the request req
\* settled with the given outcome
sendSettled(req, outcome, payload) ==
  IF req.caller = "page"
  THEN LET ok == outcome = "resolved" /\ payload # "missing" IN
       /\ IF ok
          THEN /\ messages' = Append(messages,
                                assistantMessage(IF payload = "content"
                                                 THEN Reply ELSE <<>>))
               /\ UNCHANGED toast
          ELSE catchSendError("Error al enviar mensaje")
       /\ isLoading' = FALSE
       /\ lastSend' = [outcome |-> IF ok THEN "resolved" ELSE "rejected",
                       before |-> req.history, input |-> req.input]
       /\ UNCHANGED <<isConnected, initPending, openaiApiKey, availableTools, panelVars>>
  ELSE UNCHANGED pageVars

----------------------------------------------------------------------------
(* ChatService: initialize and sendMessage *)

\* the state of a service on which no sendMessage run is in progress
RunIdle ==
  /\ pc = "idle" /\ caller = "none" /\ message = <<>> /\ sentHistory = <<>>
  /\ shouldSearch = FALSE /\ timeQuery = FALSE
  /\ searchResults = <<>> /\ toolResults = <<>>
  /\ searchCalls = 0 /\ timeCalls = 0 /\ completionCalls = 0
  /\ searchReply = NoReply /\ completionReply = NoCompletion
  /\ outbound = <<>>
  /\ failedAt = "none" /\ error = NoError /\ result = NoResult

ServiceInit ==
  /\ variant \in Variants
  /\ config = NoConfig
  /\ n8nService = FALSE
  /\ RunIdle

\* localStorage.getItem of a key that was never set
Absent == "(null)"

StorageKeys == {"openai_api_key", "mcp_server_url", "openai_model"}

\* localConfig while the panel is not mounted
NoPanel == [mounted |-> FALSE]

\* onSave has not been called
NotCalled == [called |-> FALSE]

\* the chat and its service connection before anything happened
ChatIdle ==
  /\ messages = <<>> /\ isLoading = FALSE /\ isConnected = FALSE
  /\ toast = "none" /\ lastSend = NoSend /\ initPending = 0
  /\ openaiApiKey = FALSE
  /\ availableTools = <<>>

\* the configuration panel closed, nothing stored
PanelIdle ==
  /\ showConfig = FALSE /\ indexConfig = NoConfig
  /\ localStorage = [k \in StorageKeys |-> Absent]
  /\ atStartup = TRUE
  /\ localConfig = NoPanel /\ isValid = FALSE
  /\ onSaveArg = NotCalled /\ pageCrashed = FALSE

PageIdle == ChatIdle /\ PanelIdle

\* initialize(config): this.config = config; the n8n snapshot also creates
\* its webhook service
initialize(cfg) ==
  /\ config' = cfg
  /\ n8nService' = (n8nService
                    \/ (variant = "n8n" /\ cfg.useN8nBackend /\ cfg.n8nWebhookUrl))

\* sendMessage up to its first await: the initialization check, the choice
\* of the webhook path, and the classification
beginSendMessage(m, h, who) ==
  /\ pc = "idle"
  /\ message' = m /\ sentHistory' = h /\ caller' = who
  /\ searchResults' = <<>> /\ toolResults' = <<>>
  /\ searchCalls' = 0 /\ timeCalls' = 0 /\ completionCalls' = 0
  /\ searchReply' = NoReply /\ completionReply' = NoCompletion
  /\ outbound' = <<>>
  /\ result' = NoResult
  /\ IF config = NoConfig
     THEN /\ pc' = "failed" /\ failedAt' = "init"
          /\ error' = Err("Error", 0, "Service not initialized")
          /\ shouldSearch' = FALSE /\ timeQuery' = FALSE
     ELSE IF variant = "n8n" /\ config.useN8nBackend /\ n8nService
     THEN /\ pc' = "n8n" /\ failedAt' = "none" /\ error' = NoError
          /\ shouldSearch' = FALSE /\ timeQuery' = FALSE
     ELSE /\ pc' = "search" /\ failedAt' = "none" /\ error' = NoError
          /\ shouldSearch' = wantsSearch(variant, m)
          /\ timeQuery' = extractTimeIntent(m)
  /\ UNCHANGED <<variant, config, n8nService>>

\* if (shouldSearch && enableWebSearch) searchResults = await performWebSearch
SearchStep ==
  /\ pc = "search"
  /\ IF SearchDispatch(variant, config, shouldSearch)
     THEN \E r \in SearchReplies :
            LET out == SearchOf(variant, config, message, r) IN
            /\ searchCalls' = searchCalls + 1
            /\ searchReply' = IF out.requested THEN r ELSE NoReply
            /\ IF out.threw
               THEN /\ pc' = "failed" /\ failedAt' = "search"
                    /\ error' = Err("Error", 0, "search failed")
                    /\ UNCHANGED searchResults
               ELSE /\ pc' = "time" /\ searchResults' = out.results
                    /\ UNCHANGED <<failedAt, error>>
     ELSE /\ pc' = "time"
          /\ UNCHANGED <<searchCalls, searchReply, searchResults, failedAt, error>>
  /\ UNCHANGED <<variant, config, n8nService, caller, message, sentHistory,
                 shouldSearch, timeQuery, toolResults, timeCalls,
                 completionCalls, completionReply, outbound, result>>
  /\ UNCHANGED <<pageVars, relayVars>>

\* if (timeQuery && enableTimeServer) toolResults = await handleTimeQuery
TimeStep ==
  /\ pc = "time"
  /\ IF TimeDispatch(config, timeQuery)
     THEN /\ timeCalls' = timeCalls + 1
          /\ toolResults' = handleTimeQuery(message)
     ELSE UNCHANGED <<timeCalls, toolResults>>
  /\ pc' = "complete"
  /\ searchReply' = NoReply
  /\ UNCHANGED <<variant, config, n8nService, caller, message, sentHistory,
                 shouldSearch, timeQuery, searchResults, searchCalls,
                 completionCalls, completionReply, outbound, failedAt,
                 error, result>>
  /\ UNCHANGED <<pageVars, relayVars>>

\* the completion request, the status check and the extraction of the content
CompleteStep ==
  /\ pc = "complete"
  /\ \E reply \in CompletionReplies :
       LET out == complete(reply) IN
       /\ completionCalls' = completionCalls + 1
       /\ completionReply' = reply
       /\ outbound' = messagesOf(variant, sentHistory, message, searchResults,
                                 toolResults)
       /\ IF out.threw
          THEN /\ pc' = "failed" /\ failedAt' = "completion"
               /\ error' = out.error
               /\ UNCHANGED result
          ELSE /\ pc' = "done"
               /\ result' = ChatResponse(out.content, searchResults, toolResults)
               /\ UNCHANGED <<failedAt, error>>
  /\ UNCHANGED <<variant, config, n8nService, caller, message, sentHistory,
                 shouldSearch, timeQuery, searchResults, toolResults,
                 searchCalls, timeCalls, searchReply>>
  /\ UNCHANGED <<pageVars, relayVars>>

\* the webhook path of the n8n snapshot
N8nStep ==
  /\ pc = "n8n"
  /\ \E r \in N8nReplies :
       LET out == n8nSendMessage(r) IN
       IF out.threw
       THEN /\ pc' = "failed" /\ failedAt' = "n8n" /\ error' = N8nError
            /\ UNCHANGED result
       ELSE /\ pc' = "done" /\ result' = n8nChatResponse(out.response)
            /\ UNCHANGED <<failedAt, error>>
  /\ UNCHANGED <<variant, config, n8nService, caller, message, sentHistory,
                 shouldSearch, timeQuery, searchResults, toolResults,
                 searchCalls, timeCalls, completionCalls, searchReply,
                 completionReply, outbound>>
  /\ UNCHANGED <<pageVars, relayVars>>

\* the run's locals are dropped once the caller has the outcome
endRun ==
  /\ pc' = "idle" /\ caller' = "none" /\ message' = <<>> /\ sentHistory' = <<>>
  /\ shouldSearch' = FALSE /\ timeQuery' = FALSE
  /\ searchResults' = <<>> /\ toolResults' = <<>>
  /\ searchCalls' = 0 /\ timeCalls' = 0 /\ completionCalls' = 0
  /\ searchReply' = NoReply /\ completionReply' = NoCompletion
  /\ outbound' = <<>>
  /\ failedAt' = "none" /\ error' = NoError /\ result' = NoResult
  /\ UNCHANGED <<variant, config, n8nService>>

(* A caller of the service's public methods, one call at a time *)

Initialize ==
  /\ pc = "idle"
  /\ \E cfg \in ConfigsOf(variant) : initialize(cfg)
  /\ UNCHANGED <<variant, pc, caller, message, sentHistory, shouldSearch,
                 timeQuery, searchResults, toolResults, searchCalls, timeCalls,
                 completionCalls, searchReply, completionReply, outbound,
                 failedAt, error, result>>
  /\ UNCHANGED <<pageVars, relayVars>>

SendMessage ==
  /\ \E m \in Messages : beginSendMessage(m, <<>>, "api")
  /\ UNCHANGED <<pageVars, relayVars>>

Settle ==
  /\ pc \in {"done", "failed"} /\ caller = "api"
  /\ endRun
  /\ UNCHANGED <<pageVars, relayVars>>

----------------------------------------------------------------------------
(* The relay transport: the relay ChatService in the browser and the relay *)
(* backend, joined by WebSocket connections.                               *)

Sockets == 1..MaxSockets

\* this.backendConnection = null
NoSocket == 0

\* the connections of other clients of the backend
RawClients == {0 - c : c \in 1..MaxRawClients}

Connections == RawClients \cup Sockets

\* message id msg_N is modelled by N
MessageIds == 0..(MaxRequests - 1)

\* a frame that has no messageId field
NoId == -1

DefaultModel == "gpt-4o-mini"

NoServiceConfig == [null |-> TRUE]

RelayConfig == [model |-> "gpt-4o"]

\* a slot for a WebSocket the client has not created yet
NoSocketYet ==
  [readyState |-> "NONE", init |-> "none", opened |-> FALSE, caller |-> "none"]

\* new WebSocket(backendUrl), with the promise of the initialize call that
\* created it
NewWebSocket(who) ==
  [readyState |-> "CONNECTING", init |-> "pending", opened |-> FALSE,
   caller |-> who]

\* a socket that has closed: none of its handlers runs again
ClosedSocket ==
  [readyState |-> "CLOSED", init |-> "none", opened |-> FALSE,
   caller |-> "none"]

Unused == {s \in Sockets : sockets[s].readyState = "NONE"}

FreshSocket == CHOOSE s \in Unused : \A t \in Unused : s <= t

\* this.backendConnection && this.backendConnection.readyState === OPEN
IsOpen(b) == b # NoSocket /\ sockets[b].readyState = "OPEN"

NoRequest ==
  [outcome |-> "unsent", timer |-> "none", late |-> FALSE,
   caller |-> "none", input |-> <<>>, history |-> <<>>]

NoTrigger == [type |-> "NONE", messageId |-> NoId]

\* frames the clients write
ClientFrame(type, id, content, model) ==
  [type |-> type, messageId |-> id, content |-> content, model |-> model]

\* an opening frame of a type the backend does not know
HelloFrame(model) == ClientFrame("HELLO", NoId, "none", model)

InitFrame(model) == ClientFrame("INIT", NoId, "none", model)

UserMessageFrame(id) == ClientFrame("USER_MESSAGE", id, "string", "none")

\* frames the backend writes; trigger remembers the frame being answered
ServerFrame(type, id, payload, trigger) ==
  [type |-> type, messageId |-> id, payload |-> payload,
   trigger |-> [type |-> trigger.type, messageId |-> trigger.messageId]]

(* The relay ChatService *)

\* how many calls, user actions and connection faults a run may hold, for
\* the owner of a socket
budget(who) == IF who = "page" THEN MaxClicks ELSE MaxCalls

\* initialize(config), called through the service's public interface
relayInitialize(cfg) ==
  /\ serviceConfig' = cfg
  /\ IF IsOpen(backendConnection)
     THEN UNCHANGED <<sockets, backendConnection>>
     ELSE /\ Unused # {}
          /\ sockets' = [sockets EXCEPT ![FreshSocket] = NewWebSocket("api")]
          /\ backendConnection' = FreshSocket
  /\ UNCHANGED <<pendingMessages, messageCounter, requests, toBackend,
                 toClient, clientSessions, handlers, braveMcpProcess,
                 braveMcpTools, rawSent>>

\* backendConnection.onopen, and the backend's 'connection' event
SocketOpens(s) ==
  /\ sockets[s].readyState = "CONNECTING"
  /\ clientSessions' = [clientSessions EXCEPT ![s] = DefaultModel]
  /\ LET b == backendConnection
         sendsInit == b # NoSocket /\ serviceConfig # NoServiceConfig
         target == IF b = s THEN "OPEN"
                   ELSE IF b = NoSocket THEN "null"
                   ELSE sockets[b].readyState
         \* send() on a socket that is still connecting throws
         threw == sendsInit /\ target = "CONNECTING"
     IN
     /\ sockets' = [sockets EXCEPT ![s] =
                      [readyState |-> "OPEN", opened |-> TRUE,
                       init |-> IF threw THEN "pending" ELSE "resolved",
                       caller |-> @.caller]]
     /\ toBackend' = IF sendsInit /\ target = "OPEN"
                     THEN [toBackend EXCEPT
                             ![b] = Append(@, InitFrame(serviceConfig.model))]
                     ELSE toBackend
     /\ IF threw THEN UNCHANGED pageVars
        ELSE initSettled(sockets[s].caller, TRUE)
  /\ UNCHANGED svcVars
  /\ UNCHANGED <<backendConnection, serviceConfig, pendingMessages,
                 messageCounter, requests, toClient, handlers,
                 braveMcpProcess, braveMcpTools, rawSent, calls>>

\* the handshake fails: backendConnection.onerror, then onclose
SocketFails(s) ==
  /\ sockets[s].readyState = "CONNECTING"
  /\ calls < budget(sockets[s].caller)
  /\ calls' = calls + 1
  /\ sockets' = [sockets EXCEPT ![s] = ClosedSocket]
  /\ backendConnection' = NoSocket
  /\ initSettled(sockets[s].caller, FALSE)
  /\ UNCHANGED svcVars
  /\ UNCHANGED <<serviceConfig, pendingMessages, messageCounter, requests,
                 toBackend, toClient, clientSessions, handlers,
                 braveMcpProcess, braveMcpTools, rawSent>>

\* an open connection is lost: onerror, then onclose; frames in flight are
\* lost with it, and the backend's ws.on('close') drops the session
SocketDrops(s) ==
  /\ sockets[s].readyState = "OPEN"
  /\ calls < budget(sockets[s].caller)
  /\ calls' = calls + 1
  /\ sockets' = [sockets EXCEPT ![s] = ClosedSocket]
  /\ backendConnection' = NoSocket
  /\ IF sockets[s].init = "pending"
     THEN initSettled(sockets[s].caller, FALSE)
     ELSE UNCHANGED pageVars
  /\ UNCHANGED svcVars
  /\ toBackend' = [toBackend EXCEPT ![s] = <<>>]
  /\ toClient' = [toClient EXCEPT ![s] = <<>>]
  /\ clientSessions' = [clientSessions EXCEPT ![s] = "absent"]
  /\ UNCHANGED <<serviceConfig, pendingMessages, messageCounter, requests,
                 handlers, braveMcpProcess, braveMcpTools, rawSent>>

\* a socket on which close() was called finishes closing: onclose, preceded
\* by onerror when the socket had not opened yet; the backend's
\* ws.on('close') drops the session
SocketCloses(s) ==
  /\ sockets[s].readyState = "CLOSING"
  /\ sockets' = [sockets EXCEPT ![s] = ClosedSocket]
  /\ backendConnection' = NoSocket
  /\ IF ~sockets[s].opened /\ sockets[s].init = "pending"
     THEN initSettled(sockets[s].caller, FALSE)
     ELSE UNCHANGED pageVars
  /\ UNCHANGED svcVars
  /\ toBackend' = [toBackend EXCEPT ![s] = <<>>]
  /\ toClient' = [toClient EXCEPT ![s] = <<>>]
  /\ clientSessions' = [clientSessions EXCEPT ![s] = "absent"]
  /\ UNCHANGED <<serviceConfig, pendingMessages, messageCounter, requests,
                 handlers, braveMcpProcess, braveMcpTools, rawSent, calls>>

\* the ids a frame settles when the check on messageId is dropped: the
\* oldest pending request takes any response
pendingForAny(f) ==
  IF f.messageId # NoId /\ f.messageId \in pendingMessages
  THEN {f.messageId}
  ELSE {id \in pendingMessages : \A other \in pendingMessages : id <= other}

\* if (response.messageId && this.pendingMessages.has(response.messageId))
pendingFor(f) ==
  IF f.messageId # NoId /\ f.messageId \in pendingMessages
  THEN {f.messageId}
  ELSE {}

\* how a matched frame settles its promise
settle(f) ==
  IF f.type = "ASSISTANT_RESPONSE" THEN "resolved"
  ELSE IF f.type = "ERROR" THEN "rejected"
  ELSE "unknown_type"

\* the body of backendConnection.onmessage for the frame f
onmessage(f) ==
  LET parsed == f.type # "UNPARSEABLE"
      \* response.payload.error of an ERROR without payload throws, and
      \* the throw is caught by the handler's try/catch
      threw == f.type = "ERROR" /\ f.payload = "missing"
      settled == IF parsed /\ ~threw THEN pendingFor(f) ELSE {}
  IN
  /\ pendingMessages' = pendingMessages \ settled
  /\ requests' =
       [id \in MessageIds |->
          IF id \in settled
          THEN [requests[id] EXCEPT !.outcome = settle(f)]
          ELSE IF parsed /\ f.messageId = id
                  /\ requests[id].outcome \notin {"unsent", "pending"}
          THEN [requests[id] EXCEPT !.late = TRUE]
          ELSE requests[id]]
  /\ IF settled = {} THEN UNCHANGED pageVars
     ELSE \E id \in settled : sendSettled(requests[id], settle(f), f.payload)

\* a frame of the backend arrives on an open socket
OnMessage(s) ==
  /\ sockets[s].readyState = "OPEN"
  /\ toClient[s] # <<>>
  /\ toClient' = [toClient EXCEPT ![s] = Tail(@)]
  /\ onmessage(Head(toClient[s]))
  /\ UNCHANGED svcVars
  /\ UNCHANGED <<sockets, backendConnection, serviceConfig, messageCounter,
                 toBackend, clientSessions, handlers, braveMcpProcess,
                 braveMcpTools, rawSent, calls>>

\* the timer callback without its check of pendingMessages
onTimeoutUnguarded(id) ==
  /\ pendingMessages' = pendingMessages \ {id}
  /\ requests' = [requests EXCEPT ![id].timer = "fired",
                                  ![id].outcome = "timeout"]

\* the callback of setTimeout(..., 30000) in sendMessage
onTimeout(id) ==
  IF id \in pendingMessages
  THEN /\ pendingMessages' = pendingMessages \ {id}
       /\ requests' = [requests EXCEPT ![id].timer = "fired",
                                       ![id].outcome = "timeout"]
  ELSE /\ pendingMessages' = pendingMessages
       /\ requests' = [requests EXCEPT ![id].timer = "fired"]

TimerFires(id) ==
  /\ requests[id].timer = "armed"
  /\ onTimeout(id)
  /\ IF id \in pendingMessages
     THEN sendSettled(requests[id], "timeout", "none")
     ELSE UNCHANGED pageVars
  /\ UNCHANGED svcVars
  /\ UNCHANGED <<sockets, backendConnection, serviceConfig, messageCounter,
                 toBackend, toClient, clientSessions, handlers,
                 braveMcpProcess, braveMcpTools, rawSent, calls>>

\* sendMessage(userMessage, conversationHistory): TRUE when the call is
\* accepted, FALSE when it throws before sending
relayAccepts ==
  IsOpen(backendConnection) /\ serviceConfig # NoServiceConfig

relaySendMessage(who, input, history) ==
  /\ relayAccepts
  /\ messageCounter < MaxRequests
  /\ LET id == messageCounter IN
     /\ messageCounter' = messageCounter + 1
     /\ pendingMessages' = pendingMessages \cup {id}
     /\ toBackend' = [toBackend EXCEPT
                        ![backendConnection] = Append(@, UserMessageFrame(id))]
     /\ requests' = [requests EXCEPT ![id] =
                       [outcome |-> "pending", timer |-> "armed",
                        late |-> FALSE,
                        caller |-> who, input |-> input,
                        history |-> history]]
  /\ UNCHANGED <<sockets, backendConnection, serviceConfig, toClient,
                 clientSessions, handlers, braveMcpProcess, braveMcpTools,
                 rawSent>>

\* backendConnection.close() of disconnect()
closeSocket(socks, b) ==
  IF b # NoSocket /\ socks[b].readyState \in {"CONNECTING", "OPEN"}
  THEN [socks EXCEPT ![b].readyState = "CLOSING"]
  ELSE socks

\* a disconnect that leaves the pending promises as they are
rejectNone(reqs, pending) == reqs

\* pendingMessages.forEach(p => p.reject(new Error('Disconnected')))
rejectPending(reqs, pending) ==
  [id \in MessageIds |->
     IF id \in pending THEN [reqs[id] EXCEPT !.outcome = "disconnected"]
     ELSE reqs[id]]

\* disconnect()
relayDisconnect ==
  /\ sockets' = closeSocket(sockets, backendConnection)
  /\ backendConnection' = NoSocket
  /\ requests' = rejectPending(requests, pendingMessages)
  /\ pendingMessages' = {}
  /\ UNCHANGED <<serviceConfig, messageCounter, toBackend, toClient,
                 clientSessions, handlers, braveMcpProcess, braveMcpTools,
                 rawSent>>

\* frames a peer that is not the relay backend may write to the client
ForeignFrames ==
  {ServerFrame("UNPARSEABLE", NoId, "missing", NoTrigger),
   ServerFrame("ERROR", NoId, "error", NoTrigger)}
  \cup {ServerFrame(t, id, "missing", NoTrigger) :
          t \in {"ERROR", "OTHER"}, id \in 0..MaxRequests}

\* such a peer writes a frame to an open socket whose queue is empty
PeerPushes(s) ==
  /\ sockets[s].readyState = "OPEN"
  /\ toClient[s] = <<>>
  /\ calls < MaxCalls
  /\ calls' = calls + 1
  /\ \E f \in ForeignFrames : toClient' = [toClient EXCEPT ![s] = <<f>>]
  /\ UNCHANGED <<svcVars, pageVars>>
  /\ UNCHANGED <<sockets, backendConnection, serviceConfig, pendingMessages,
                 messageCounter, requests, toBackend, clientSessions,
                 handlers, braveMcpProcess, braveMcpTools, rawSent>>

(* The relay backend *)

\* ws.send(...) of the backend: the frame reaches a client whose socket is
\* open, and is lost otherwise
wsSend(c, f) ==
  IF clientSessions[c] # "absent"
     /\ (c \in RawClients \/ sockets[c].readyState = "OPEN")
  THEN [toClient EXCEPT ![c] = Append(@, f)]
  ELSE toClient

\* an ERROR reply written without the messageId field
ErrorReplyNoId(h) == ServerFrame("ERROR", NoId, "error", h.trigger)

\* { type: 'ERROR', messageId, payload: { error } }
ErrorReply(h) == ServerFrame("ERROR", h.messageId, "error", h.trigger)

\* { type: 'ASSISTANT_RESPONSE', messageId, payload: { content } }
AssistantReply(h, payload) ==
  ServerFrame("ASSISTANT_RESPONSE", h.messageId, payload, h.trigger)

\* a name for a run of the 'message' handler that no run in progress has
freshRun ==
  CHOOSE n \in 0..Cardinality(handlers) : \A g \in handlers : g.run # n

\* an INIT that would set the model of every session
setModelForAll(c, model) ==
  [d \in Connections |->
     IF clientSessions[d] = "absent" THEN "absent" ELSE model]

\* sessionData.model = parsedMessage.payload.model
setModel(c, model) == [clientSessions EXCEPT ![c] = model]

\* the locals of one run of the 'message' handler, with the answer of its
\* first completion call once it has one, and the number of completion
\* calls and of invoke messages it has issued so far; the first
\* completion call is issued before the handler's first await
Handler(c, f) ==
  [run |-> freshRun, ws |-> c, messageId |-> f.messageId,
   trigger |-> [type |-> f.type, messageId |-> f.messageId],
   model |-> clientSessions[c], pc |-> "completion",
   assistantMessage |-> "none", completions |-> 1, invokes |-> 0]

\* ws.on('message') up to its first await
BackendReceive(c) ==
  /\ toBackend[c] # <<>>
  /\ LET f == Head(toBackend[c])
         h == Handler(c, f)
     IN
     /\ toBackend' = [toBackend EXCEPT ![c] = Tail(@)]
     /\ IF f.type = "INVALID_JSON"
        THEN /\ toClient' = wsSend(c, ServerFrame("ERROR", NoId, "error",
                                                  h.trigger))
             /\ UNCHANGED <<clientSessions, handlers>>
        ELSE IF clientSessions[c] = "absent"
        THEN UNCHANGED <<toClient, clientSessions, handlers>>
        ELSE IF f.type = "INIT"
        THEN /\ clientSessions' = IF f.model # "none"
                                  THEN setModel(c, f.model)
                                  ELSE clientSessions
             /\ UNCHANGED <<toClient, handlers>>
        ELSE IF f.type = "USER_MESSAGE"
        THEN IF f.content # "string"
             THEN /\ toClient' = wsSend(c, ErrorReply(h))
                  /\ UNCHANGED <<clientSessions, handlers>>
             ELSE /\ handlers' = handlers \cup {h}
                  /\ UNCHANGED <<toClient, clientSessions>>
        ELSE /\ toClient' = wsSend(c, ErrorReply(h))
             /\ UNCHANGED <<clientSessions, handlers>>
  /\ UNCHANGED <<svcVars, pageVars>>
  /\ UNCHANGED <<sockets, backendConnection, serviceConfig, pendingMessages,
                 messageCounter, requests, braveMcpProcess, braveMcpTools,
                 rawSent, calls>>

\* what the completion endpoint may answer to the backend
CompletionOutcomes ==
  {"network_error", "http_error", "bad_body", "tool_call",
   "tool_call_unknown_tool", "tool_call_bad_arguments", "content", "empty"}

ToolOutcomes == {"result", "error", "timeout"}

\* a handler that finishes without writing anything to its client
finishSilently(h, f) ==
  /\ UNCHANGED toClient
  /\ handlers' = handlers \ {h}

\* the handler finishes with one reply
replyAndFinish(h, f) ==
  /\ toClient' = wsSend(h.ws, f)
  /\ handlers' = handlers \ {h}

\* the handler goes on to its next await
continueAt(h, next, answer) ==
  /\ handlers' =
       (handlers \ {h})
       \cup {[h EXCEPT !.pc = next, !.assistantMessage = answer,
                       !.invokes = IF next = "tool" THEN @ + 1 ELSE @,
                       !.completions =
                          IF next = "second_completion" THEN @ + 1 ELSE @]}
  /\ UNCHANGED toClient

\* a test of the tool list that lets every tool name through
toolInListAlways(o) == TRUE

\* braveMcpTools.some(t => t.name === toolName)
toolInList(o) == braveMcpTools /\ o = "tool_call"

\* the first completion call and the branch on its answer
BackendCompletion(h) ==
  /\ h.pc = "completion"
  /\ \E o \in CompletionOutcomes :
       IF o \in {"network_error", "http_error", "bad_body"}
       THEN replyAndFinish(h, ErrorReply(h))
       ELSE IF o \in {"tool_call", "tool_call_unknown_tool",
                       "tool_call_bad_arguments"}
               /\ braveMcpProcess
       THEN IF o = "tool_call_bad_arguments"
            THEN replyAndFinish(h, ErrorReply(h))
            ELSE IF toolInList(o)
            THEN \E writable \in BOOLEAN :
                   IF writable
                   THEN continueAt(h, "tool", o)
                   ELSE replyAndFinish(h, ErrorReply(h))
            ELSE replyAndFinish(h, AssistantReply(h, "content"))
       ELSE IF o = "content"
       THEN replyAndFinish(h, AssistantReply(h, "content"))
       ELSE replyAndFinish(h, ErrorReply(h))
  /\ UNCHANGED <<svcVars, pageVars>>
  /\ UNCHANGED <<sockets, backendConnection, serviceConfig, pendingMessages,
                 messageCounter, requests, toBackend, clientSessions,
                 braveMcpProcess, braveMcpTools, rawSent, calls>>

\* sendToBraveMcp({ action: 'invoke', ... })
BackendTool(h) ==
  /\ h.pc = "tool"
  /\ IF ~braveMcpProcess
     THEN replyAndFinish(h, ErrorReply(h))
     ELSE \E o \in ToolOutcomes :
            IF o = "result"
            THEN continueAt(h, "second_completion", h.assistantMessage)
            ELSE replyAndFinish(h, ErrorReply(h))
  /\ UNCHANGED <<svcVars, pageVars>>
  /\ UNCHANGED <<sockets, backendConnection, serviceConfig, pendingMessages,
                 messageCounter, requests, toBackend, clientSessions,
                 braveMcpProcess, braveMcpTools, rawSent, calls>>

\* the second completion call, with the tool result
BackendSecondCompletion(h) ==
  /\ h.pc = "second_completion"
  /\ \E o \in CompletionOutcomes \ {"tool_call", "tool_call_unknown_tool",
                                    "tool_call_bad_arguments"} :
       IF o \in {"network_error", "http_error", "bad_body"}
       THEN replyAndFinish(h, ErrorReply(h))
       ELSE IF o = "content"
       THEN replyAndFinish(h, AssistantReply(h, "final_content"))
       ELSE replyAndFinish(h, AssistantReply(h, "no_content"))
  /\ UNCHANGED <<svcVars, pageVars>>
  /\ UNCHANGED <<sockets, backendConnection, serviceConfig, pendingMessages,
                 messageCounter, requests, toBackend, clientSessions,
                 braveMcpProcess, braveMcpTools, rawSent, calls>>

\* the tool subprocess announces its tools
McpToolsListed ==
  /\ braveMcpProcess /\ ~braveMcpTools
  /\ braveMcpTools' = TRUE
  /\ UNCHANGED <<svcVars, pageVars>>
  /\ UNCHANGED <<sockets, backendConnection, serviceConfig, pendingMessages,
                 messageCounter, requests, toBackend, toClient,
                 clientSessions, handlers, braveMcpProcess, rawSent, calls>>

\* braveMcpProcess.on('close')
McpProcessCloses ==
  /\ braveMcpProcess
  /\ braveMcpProcess' = FALSE /\ braveMcpTools' = FALSE
  /\ UNCHANGED <<svcVars, pageVars>>
  /\ UNCHANGED <<sockets, backendConnection, serviceConfig, pendingMessages,
                 messageCounter, requests, toBackend, toClient,
                 clientSessions, handlers, rawSent, calls>>

\* frames another client of the backend may write
RawFrames(id) ==
  {ClientFrame("INVALID_JSON", NoId, "none", "none"),
   ClientFrame("USER_MESSAGE", id, "missing", "none"),
   ClientFrame("USER_MESSAGE", NoId, "string", "none"),
   ClientFrame("USER_MESSAGE", id, "string", "none"),
   ClientFrame("OTHER", id, "none", "none"),
   ClientFrame("INIT", NoId, "none", "other-model")}

RawClientSends(c) ==
  /\ clientSessions[c] # "absent"
  /\ rawSent < MaxRawFrames
  /\ rawSent' = rawSent + 1
  /\ \E f \in RawFrames(rawSent) :
       toBackend' = [toBackend EXCEPT ![c] = Append(@, f)]
  /\ UNCHANGED <<svcVars, pageVars>>
  /\ UNCHANGED <<sockets, backendConnection, serviceConfig, pendingMessages,
                 messageCounter, requests, toClient, clientSessions,
                 handlers, braveMcpProcess, braveMcpTools, calls>>

\* ws.on('close') for another client
RawClientCloses(c) ==
  /\ clientSessions[c] # "absent"
  /\ toBackend[c] = <<>>
  /\ clientSessions' = [clientSessions EXCEPT ![c] = "absent"]
  /\ UNCHANGED <<svcVars, pageVars>>
  /\ UNCHANGED <<sockets, backendConnection, serviceConfig, pendingMessages,
                 messageCounter, requests, toBackend, toClient, handlers,
                 braveMcpProcess, braveMcpTools, rawSent, calls>>

RelayIdle ==
  /\ sockets = [s \in Sockets |-> NoSocketYet]
  /\ backendConnection = NoSocket
  /\ serviceConfig = NoServiceConfig
  /\ pendingMessages = {}
  /\ messageCounter = 0
  /\ requests = [id \in MessageIds |-> NoRequest]
  /\ toBackend = [c \in Connections |-> <<>>]
  /\ toClient = [c \in Connections |-> <<>>]
  /\ clientSessions = [c \in Connections |->
                         IF c \in RawClients THEN DefaultModel ELSE "absent"]
  /\ handlers = {}
  /\ braveMcpTools = FALSE
  /\ rawSent = 0 /\ calls = 0

(* A caller of the relay ChatService's public methods *)

RelayInitialize ==
  /\ calls < MaxCalls
  /\ calls' = calls + 1
  /\ relayInitialize(RelayConfig)
  /\ UNCHANGED <<svcVars, pageVars>>

RelaySendMessage ==
  /\ calls < MaxCalls
  /\ IF relayAccepts
     THEN /\ calls' = calls + 1
          /\ relaySendMessage("api", <<>>, <<>>)
     ELSE UNCHANGED relayVars
  /\ UNCHANGED <<svcVars, pageVars>>

RelayDisconnect ==
  /\ calls < MaxCalls
  /\ calls' = calls + 1
  /\ relayDisconnect
  /\ UNCHANGED <<svcVars, pageVars>>

RelayInit ==
  /\ variant = "relay" /\ config = NoConfig /\ n8nService = FALSE
  /\ RunIdle /\ PageIdle
  /\ RelayIdle
  /\ braveMcpProcess = FALSE

NextRelay ==
  \/ RelayInitialize
  \/ RelaySendMessage
  \/ RelayDisconnect
  \/ \E s \in Sockets : SocketOpens(s)
  \/ \E s \in Sockets : SocketFails(s)
  \/ \E s \in Sockets : SocketDrops(s)
  \/ \E s \in Sockets : SocketCloses(s)
  \/ \E s \in Sockets : OnMessage(s)
  \/ \E id \in MessageIds : TimerFires(id)
  \/ \E s \in Sockets : PeerPushes(s)
  \/ \E c \in Connections : BackendReceive(c)
  \/ \E h \in handlers : BackendCompletion(h)

SpecRelay == RelayInit /\ [][NextRelay]_vars

\* the relay client with its timers: a timer that was set fires in the end,
\* a socket that is closing closes, a frame in flight is delivered and the
\* backend goes on with what it received; nothing makes a handshake open or
\* fail
SpecRelayTimers ==
  /\ RelayInit /\ [][NextRelay]_vars
  /\ \A id \in MessageIds : WF_vars(TimerFires(id))
  /\ \A s \in Sockets : WF_vars(SocketCloses(s)) /\ WF_vars(OnMessage(s))
  /\ \A c \in Connections : WF_vars(BackendReceive(c))
  /\ WF_vars(\E h \in handlers : BackendCompletion(h))

(* The relay backend with clients that write arbitrary frames *)

BackendInit ==
  /\ variant = "relay" /\ config = NoConfig /\ n8nService = FALSE
  /\ RunIdle /\ PageIdle
  /\ RelayIdle
  /\ braveMcpProcess \in BOOLEAN

NextBackend ==
  \/ \E c \in RawClients : RawClientSends(c)
  \/ \E c \in RawClients : RawClientCloses(c)
  \/ \E c \in Connections : BackendReceive(c)
  \/ \E h \in handlers : BackendCompletion(h)
  \/ \E h \in handlers : BackendTool(h)
  \/ \E h \in handlers : BackendSecondCompletion(h)
  \/ McpToolsListed
  \/ McpProcessCloses

SpecBackend == BackendInit /\ [][NextBackend]_vars

\* the names a run of the 'message' handler can have
Runs == 0..MaxRawFrames

\* the run named r
Run(r) == {h \in handlers : h.run = r}

\* another client writes a USER_MESSAGE with a string as content
RawClientAsks(c) ==
  /\ clientSessions[c] # "absent"
  /\ rawSent < MaxRawFrames
  /\ rawSent' = rawSent + 1
  /\ toBackend' = [toBackend EXCEPT ![c] = Append(@, UserMessageFrame(rawSent))]
  /\ UNCHANGED <<svcVars, pageVars>>
  /\ UNCHANGED <<sockets, backendConnection, serviceConfig, pendingMessages,
                 messageCounter, requests, toClient, clientSessions,
                 handlers, braveMcpProcess, braveMcpTools, calls>>

NextBackendAwaits ==
  \/ \E c \in RawClients : RawClientAsks(c)
  \/ \E c \in RawClients : RawClientCloses(c)
  \/ \E c \in Connections : BackendReceive(c)
  \/ \E h \in handlers : BackendCompletion(h)
  \/ \E h \in handlers : BackendTool(h)
  \/ \E h \in handlers : BackendSecondCompletion(h)
  \/ McpToolsListed
  \/ McpProcessCloses

\* the backend with its awaits, serving clients that write user messages: a
\* completion call settles (the HTTP client gives up on a server that stays
\* silent), and a request to the tool subprocess settles by its answer or by
\* its 15 second timer
SpecBackendAwaits ==
  /\ BackendInit /\ [][NextBackendAwaits]_vars
  /\ \A r \in Runs :
       WF_vars(\E h \in Run(r) : \/ BackendCompletion(h)
                                 \/ BackendTool(h)
                                 \/ BackendSecondCompletion(h))

----------------------------------------------------------------------------
(* The service called directly, one call at a time *)

Init ==
  /\ ServiceInit /\ PageIdle
  /\ RelayIdle /\ braveMcpProcess = FALSE

Next ==
  \/ Initialize
  \/ SendMessage
  \/ SearchStep
  \/ TimeStep
  \/ CompleteStep
  \/ N8nStep
  \/ Settle

Spec == Init /\ [][Next]_vars

----------------------------------------------------------------------------
(* The completion request of a run, for any conversation history *)

HistoryRoles == {"user", "assistant"}

\* the i-th entry of a history says i words
entryContent(i) == [j \in 1..i |-> "palabra"]

\* conversationHistory: Message[] (id, role, content), up to MaxHistory long
Histories ==
  UNION {{[i \in 1..n |-> [id |-> i, role |-> r[i],
                           content |-> entryContent(i)]] :
            r \in [1..n -> HistoryRoles]} : n \in 0..MaxHistory}

PromptMessages == {<<"hola">>, <<"busca", "hora">>}

\* a sendMessage run that has finished its search and time dispatch
PromptInit ==
  /\ variant \in Variants
  /\ config \in {c \in ConfigsOf(variant) :
                   /\ ~c.useN8nBackend /\ ~c.braveApiKey
                   /\ c.webSearchProvider =
                        IF variant = "mock" THEN "other" ELSE "pskill9"}
  /\ n8nService = FALSE
  /\ pc = "complete" /\ caller = "api"
  /\ message \in PromptMessages
  /\ sentHistory \in Histories
  /\ shouldSearch = wantsSearch(variant, message)
  /\ timeQuery = extractTimeIntent(message)
  /\ searchCalls = IF SearchDispatch(variant, config, shouldSearch)
                   THEN 1 ELSE 0
  /\ searchResults \in IF searchCalls = 1
                        THEN {Items(n, "pskill9") : n \in 0..MaxItems}
                        ELSE {<<>>}
  /\ timeCalls = IF TimeDispatch(config, timeQuery) THEN 1 ELSE 0
  /\ toolResults = IF timeCalls = 1 THEN handleTimeQuery(message) ELSE <<>>
  /\ completionCalls = 0
  /\ searchReply = NoReply /\ completionReply = NoCompletion
  /\ outbound = <<>>
  /\ failedAt = "none" /\ error = NoError /\ result = NoResult
  /\ PageIdle
  /\ RelayIdle /\ braveMcpProcess = FALSE

SpecPrompt == PromptInit /\ [][CompleteStep]_vars

----------------------------------------------------------------------------
(* The search call of a run, for every snapshot of the service *)

\* the four snapshots a run can use, and the earlier ChatService class that
\* ChatService.ts still carries
SearchVariants == Variants \cup {"earlier"}

\* both say 'busca', which every snapshot's classifier flags
SearchMessages == {<<"busca">>, <<"busca", "claude">>}

\* sendMessage has classified a message that asks for a search and the
\* configuration lets the search be dispatched
SearchInit ==
  /\ variant \in SearchVariants
  /\ config \in {c \in ConfigsOf(variant) : variant = "mock" \/ c.enableWebSearch}
  /\ n8nService = FALSE
  /\ pc = "search" /\ caller = "api"
  /\ message \in SearchMessages
  /\ sentHistory = <<>>
  /\ shouldSearch = TRUE
  /\ timeQuery = extractTimeIntent(message)
  /\ searchResults = <<>> /\ toolResults = <<>>
  /\ searchCalls = 0 /\ timeCalls = 0 /\ completionCalls = 0
  /\ searchReply = NoReply /\ completionReply = NoCompletion
  /\ outbound = <<>>
  /\ failedAt = "none" /\ error = NoError /\ result = NoResult
  /\ PageIdle
  /\ RelayIdle /\ braveMcpProcess = FALSE

SpecSearch == SearchInit /\ [][SearchStep]_vars

----------------------------------------------------------------------------
(* The chat page *)

\* what the user may type
PageInputs == {<<>>, <<"hola">>, <<"busca", "claude">>}

\* what the user may type on the relay page, which does not look into it
RelayPageInputs == {<<>>, <<"hola">>}

\* configurations the configuration panel hands to the page
PageConfigs(v) ==
  {c \in ConfigsOf(v) : /\ c.enableTimeServer = c.enableWebSearch
                        /\ ~c.braveApiKey
                        /\ c.webSearchProvider \in {"pskill9", "other"}
                        /\ c.useN8nBackend = c.n8nWebhookUrl}

(* Index.tsx, on a ChatService that calls the completion endpoint itself *)

\* handleConfigSave, the effect on config, and initializeServices up to its
\* await
PageSaveConfig ==
  /\ variant # "relay"
  /\ initPending < MaxInits
  /\ \E cfg \in PageConfigs(variant) : initialize(cfg)
  /\ IF variant = "n8n"
     THEN /\ isConnected' = TRUE /\ toast' = "Conectado"
          /\ UNCHANGED initPending
     ELSE /\ initPending' = initPending + 1
          /\ UNCHANGED <<isConnected, toast>>
  /\ UNCHANGED <<messages, isLoading, lastSend, openaiApiKey, availableTools, panelVars>>
  /\ UNCHANGED <<variant, pc, caller, message, sentHistory, shouldSearch,
                 timeQuery, searchResults, toolResults, searchCalls, timeCalls,
                 completionCalls, searchReply, completionReply, outbound,
                 failedAt, error, result>>
  /\ UNCHANGED relayVars

\* initializeServices after its await
PageInitSettles ==
  /\ initPending > 0
  /\ initPending' = initPending - 1
  /\ \E ok \in BOOLEAN :
       /\ isConnected' = ok
       /\ toast' = IF ok THEN "Conectado" ELSE "Error de conexión"
  /\ UNCHANGED <<messages, isLoading, lastSend, openaiApiKey, availableTools, panelVars>>
  /\ UNCHANGED <<svcVars, relayVars>>

\* handleSendMessage up to its await
HandleSendMessage ==
  /\ variant # "relay"
  /\ \E input \in PageInputs :
       IF ~NonBlank(input) \/ isLoading \/ ~isConnected
       THEN UNCHANGED vars
       ELSE /\ sends < MaxSends
            /\ messages' = Append(messages, userMessage(input))
            /\ isLoading' = TRUE
            /\ lastSend' = NoSend
            /\ beginSendMessage(input, messages, "page")
            /\ UNCHANGED <<isConnected, toast, initPending, openaiApiKey, availableTools, panelVars>>
            /\ UNCHANGED relayVars

\* handleSendMessage after its await, when sendMessage resolved
PageResolve ==
  /\ pc = "done" /\ caller = "page"
  /\ messages' = Append(messages, assistantMessage(result.content))
  /\ isLoading' = FALSE
  /\ lastSend' = [outcome |-> "resolved", before |-> sentHistory,
                  input |-> message]
  /\ endRun
  /\ UNCHANGED <<isConnected, toast, initPending, openaiApiKey, availableTools, panelVars>>
  /\ UNCHANGED relayVars

\* handleSendMessage after its await, when sendMessage rejected
PageReject ==
  /\ pc = "failed" /\ caller = "page"
  /\ catchSendError("Error")
  /\ isLoading' = FALSE
  /\ lastSend' = [outcome |-> "rejected", before |-> sentHistory,
                  input |-> message]
  /\ endRun
  /\ UNCHANGED <<isConnected, initPending, openaiApiKey, availableTools, panelVars>>
  /\ UNCHANGED relayVars

(* The relay page, on the relay ChatService *)

\* handleConfigSave with another API key: the effect's cleanup (disconnect),
\* then initializeAndConnectBackend up to its await; the sends that
\* disconnect rejected run their catch blocks afterwards
RelayPageSaveKey ==
  /\ variant = "relay"
  /\ calls < MaxClicks
  /\ calls' = calls + 1
  /\ \E key \in BOOLEAN :
       /\ key \/ openaiApiKey
       /\ openaiApiKey' = key
       /\ LET closed == closeSocket(sockets, backendConnection) IN
          IF key
          THEN /\ Unused # {}
               /\ serviceConfig' = RelayConfig
               /\ sockets' = [closed EXCEPT ![FreshSocket] = NewWebSocket("page")]
               /\ backendConnection' = FreshSocket
          ELSE /\ sockets' = closed
               /\ backendConnection' = NoSocket
               /\ UNCHANGED serviceConfig
       /\ requests' = rejectPending(requests, pendingMessages)
       /\ pendingMessages' = {}
       /\ isConnected' = FALSE
       /\ IF pendingMessages # {}
          THEN LET last == CHOOSE id \in pendingMessages :
                             \A other \in pendingMessages : other <= id
               IN
               /\ catchSendError("Error al enviar mensaje")
               /\ isLoading' = FALSE
               /\ lastSend' = [outcome |-> "rejected",
                               before |-> requests[last].history,
                               input |-> requests[last].input]
          ELSE /\ isLoading' = (key \/ isLoading)
               /\ UNCHANGED <<messages, toast, lastSend>>
  /\ UNCHANGED <<initPending, availableTools, panelVars>>
  /\ UNCHANGED svcVars
  /\ UNCHANGED <<messageCounter, toBackend, toClient, clientSessions,
                 handlers, braveMcpProcess, braveMcpTools, rawSent>>

\* handleSendMessage of the relay page up to its await; a sendMessage that
\* throws is caught at once
RelayHandleSendMessage ==
  /\ variant = "relay"
  /\ \E input \in RelayPageInputs :
       IF ~NonBlank(input) \/ isLoading \/ ~isConnected
       THEN /\ toast' = IF ~isConnected THEN "Desconectado" ELSE toast
            /\ UNCHANGED <<messages, isLoading, isConnected, lastSend,
                           initPending, openaiApiKey, availableTools, panelVars>>
            /\ UNCHANGED relayVars
       ELSE /\ sends < MaxSends
            /\ calls < MaxClicks
            /\ IF relayAccepts
               THEN /\ relaySendMessage("page", input, messages)
                    /\ calls' = calls + 1
                    /\ messages' = Append(messages, userMessage(input))
                    /\ isLoading' = TRUE
                    /\ lastSend' = NoSend
                    /\ UNCHANGED toast
               ELSE /\ messages' = Append(messages, userMessage(input))
                    /\ toast' = "Error al enviar mensaje"
                    /\ isLoading' = FALSE
                    /\ lastSend' = [outcome |-> "rejected",
                                    before |-> messages, input |-> input]
                    /\ UNCHANGED relayVars
            /\ UNCHANGED <<isConnected, initPending, openaiApiKey, availableTools, panelVars>>
  /\ UNCHANGED svcVars

PageInit ==
  /\ variant \in Variants
  /\ config = NoConfig /\ n8nService = FALSE
  /\ RunIdle /\ PageIdle
  /\ RelayIdle
  /\ braveMcpProcess = FALSE

NextPage ==
  \/ PageSaveConfig
  \/ PageInitSettles
  \/ HandleSendMessage
  \/ PageResolve
  \/ PageReject
  \/ SearchStep
  \/ TimeStep
  \/ CompleteStep
  \/ N8nStep

SpecPage == PageInit /\ [][NextPage]_vars

RelayPageInit ==
  /\ variant = "relay"
  /\ config = NoConfig /\ n8nService = FALSE
  /\ RunIdle /\ PageIdle
  /\ RelayIdle
  /\ braveMcpProcess = FALSE

NextRelayPage ==
  \/ RelayPageSaveKey
  \/ RelayHandleSendMessage
  \/ \E s \in Sockets : SocketOpens(s)
  \/ \E s \in Sockets : SocketFails(s)
  \/ \E s \in Sockets : SocketDrops(s)
  \/ \E s \in Sockets : SocketCloses(s)
  \/ \E s \in Sockets : OnMessage(s)
  \/ \E id \in MessageIds : TimerFires(id)
  \/ \E c \in Connections : BackendReceive(c)
  \/ \E h \in handlers : BackendCompletion(h)

SpecRelayPage == RelayPageInit /\ [][NextRelayPage]_vars

----------------------------------------------------------------------------
(* The configuration panel and the stored configuration *)

\* what the user may type as the OpenAI key, as the Brave key and as the
\* server URL, and the models and providers the selects offer
KeyTexts == {"", " ", "sk-1"}
BraveKeyTexts == {"", "BSA1"}
UrlTexts == {"ws://otro:3001"}
Models == {"gpt-4o-mini", "gpt-4o"}
PanelProviders == {"pskill9", "brave", "docker"}

\* String.prototype.trim
trim(t) == IF t = " " THEN "" ELSE t

\* a || d on what localStorage.getItem returned
orElse(v, d) == IF v \in {Absent, ""} THEN d ELSE v

\* useState<Config>({...}) of the page: Index.tsx reads the key and the
\* server URL and fixes the model; the relay page reads the key and the model
startupConfig(v, store) ==
  IF v = "relay"
  THEN [openaiApiKey |-> orElse(store["openai_api_key"], ""),
        model |-> orElse(store["openai_model"], "gpt-4o-mini")]
  ELSE [openaiApiKey |-> orElse(store["openai_api_key"], ""),
        mcpServerUrl |-> orElse(store["mcp_server_url"], "ws://localhost:3001"),
        model |-> "gpt-4o-mini"]

\* a field the object has; a missing one reads as undefined
has(c, f) == f \in DOMAIN c

\* a boolean field that is set and true
truthy(c, f) == has(c, f) /\ c[f]

braveSelected(c) ==
  truthy(c, "enableWebSearch") /\ has(c, "webSearchProvider")
  /\ c.webSearchProvider = "brave"

\* the validity check that forgets the Brave key
validKeyOnly(c) == trim(c.openaiApiKey) # ""

\* the validity effect: openaiApiKey.trim() !== '' && (!enableWebSearch ||
\* webSearchProvider !== 'brave' || braveApiKey.trim() !== '')
valid(c) ==
  trim(c.openaiApiKey) # "" /\ (~braveSelected(c) \/ trim(c.braveApiKey) # "")

\* the effect reads braveApiKey.trim() of an object that has no braveApiKey
validThrows(c) ==
  trim(c.openaiApiKey) # "" /\ braveSelected(c) /\ ~has(c, "braveApiKey")

\* { ...prev, [field]: value }
setField(c, f, v) == [g \in DOMAIN c \cup {f} |-> IF g = f THEN v ELSE c[g]]

\* a render of the panel with local configuration c, and its validity effect
render(c) ==
  /\ localConfig' = c
  /\ IF validThrows(c)
     THEN pageCrashed' = TRUE /\ isValid' = isValid
     ELSE pageCrashed' = FALSE /\ isValid' = valid(c)

unmount == localConfig' = NoPanel /\ isValid' = FALSE

\* the settings button while the panel is closed: the panel mounts with the
\* page's configuration
OpenConfig ==
  /\ ~pageCrashed /\ ~showConfig
  /\ showConfig' = TRUE /\ atStartup' = FALSE
  /\ render(indexConfig)
  /\ UNCHANGED <<indexConfig, localStorage, onSaveArg>>
  /\ UNCHANGED <<messages, isLoading, isConnected, toast, lastSend,
                 initPending, openaiApiKey, availableTools>>
  /\ UNCHANGED <<svcVars, relayVars>>

\* the settings button while the panel is open, or the panel's onClose
CloseConfig ==
  /\ ~pageCrashed /\ showConfig
  /\ showConfig' = FALSE /\ atStartup' = FALSE
  /\ unmount
  /\ UNCHANGED <<indexConfig, localStorage, onSaveArg, pageCrashed>>
  /\ UNCHANGED <<messages, isLoading, isConnected, toast, lastSend,
                 initPending, openaiApiKey, availableTools>>
  /\ UNCHANGED <<svcVars, relayVars>>

handleInputChange(f, v) ==
  /\ render(setField(localConfig, f, v))
  /\ UNCHANGED <<showConfig, indexConfig, localStorage, atStartup, onSaveArg>>
  /\ UNCHANGED <<messages, isLoading, isConnected, toast, lastSend,
                 initPending, openaiApiKey, availableTools>>
  /\ UNCHANGED <<svcVars, relayVars>>

\* the inputs, toggle and selects of the panel; the provider select shows
\* with web search enabled, the Brave key input with the Brave provider
HandleInputChange ==
  /\ ~pageCrashed /\ showConfig
  /\ \/ \E t \in KeyTexts : handleInputChange("openaiApiKey", t)
     \/ \E u \in UrlTexts : handleInputChange("mcpServerUrl", u)
     \/ \E md \in Models : handleInputChange("model", md)
     \/ handleInputChange("enableWebSearch", ~truthy(localConfig, "enableWebSearch"))
     \/ /\ truthy(localConfig, "enableWebSearch")
        /\ \E pr \in PanelProviders : handleInputChange("webSearchProvider", pr)
     \/ /\ braveSelected(localConfig)
        /\ \E t \in BraveKeyTexts : handleInputChange("braveApiKey", t)

\* Index.handleConfigSave: setConfig, two setItem calls, setShowConfig(false)
handleConfigSave(c) ==
  /\ indexConfig' = c
  /\ localStorage' =
       IF variant = "relay"
       THEN [localStorage EXCEPT !["openai_api_key"] = c.openaiApiKey,
                                 !["openai_model"] = c.model]
       ELSE [localStorage EXCEPT !["openai_api_key"] = c.openaiApiKey,
                                 !["mcp_server_url"] = c.mcpServerUrl]
  /\ showConfig' = FALSE
  /\ unmount

\* ConfigPanel.handleSave (the save button is also disabled while isValid is
\* false)
HandleSave ==
  /\ ~pageCrashed /\ showConfig
  /\ atStartup' = FALSE
  /\ IF ~isValid
     THEN /\ toast' = "Configuración incompleta"
          /\ UNCHANGED <<showConfig, indexConfig, localStorage, localConfig,
                         isValid, onSaveArg>>
     ELSE /\ onSaveArg' = localConfig
          /\ handleConfigSave(localConfig)
          /\ toast' = "Configuración guardada"
  /\ UNCHANGED pageCrashed
  /\ UNCHANGED <<messages, isLoading, isConnected, lastSend, initPending,
                 openaiApiKey, availableTools>>
  /\ UNCHANGED <<svcVars, relayVars>>

\* the browser reloads the page: every state is built again, localStorage
\* stays
Reload ==
  /\ ~atStartup
  /\ indexConfig' = startupConfig(variant, localStorage)
  /\ showConfig' = FALSE /\ atStartup' = TRUE /\ pageCrashed' = FALSE
  /\ unmount
  /\ toast' = "none"
  /\ UNCHANGED <<localStorage, onSaveArg>>
  /\ UNCHANGED <<messages, isLoading, isConnected, lastSend, initPending,
                 openaiApiKey, availableTools>>
  /\ UNCHANGED <<svcVars, relayVars>>

\* what localStorage may hold when the page is first opened
InitialStores ==
  {[k \in StorageKeys |-> Absent],
   [k \in StorageKeys |-> IF k = "openai_api_key" THEN "sk-1" ELSE Absent]}

PanelInit ==
  /\ variant \in {"inline", "relay"}
  /\ config = NoConfig /\ n8nService = FALSE
  /\ RunIdle /\ ChatIdle
  /\ RelayIdle /\ braveMcpProcess = FALSE
  /\ localStorage \in InitialStores
  /\ indexConfig = startupConfig(variant, localStorage)
  /\ showConfig = FALSE /\ atStartup = TRUE
  /\ localConfig = NoPanel /\ isValid = FALSE
  /\ onSaveArg = NotCalled /\ pageCrashed = FALSE

NextPanel ==
  \/ OpenConfig
  \/ CloseConfig
  \/ HandleInputChange
  \/ HandleSave
  \/ Reload

SpecPanel == PanelInit /\ [][NextPanel]_vars

----------------------------------------------------------------------------
(* The advertised tool list over repeated initialize calls (the other
   specifications leave the list aside) *)

\* the snapshots whose ChatService keeps a tool list
ToolVariants == {"mock", "inline"}

\* names of the tools initializeTimeServer declares
timeTools == <<"getCurrentTime", "getTimeDifference">>

\* names of the tools initializeWebSearchServer declares for the provider
searchTools(provider) ==
  CASE provider = "pskill9" -> <<"search">>
    [] provider = "brave" -> <<"brave_web_search">>
    [] provider = "docker" -> <<"google_search">>
    [] OTHER -> <<>>

\* the tool list after initialize(cfg): part_000 assigns the time tools, the
\* inline ChatService pushes the time tools and then the search tools
initializeTools(v, cfg, tools) ==
  IF v = "mock"
  THEN IF cfg.enableTimeServer THEN timeTools ELSE tools
  ELSE LET withTime == IF cfg.enableTimeServer THEN tools \o timeTools
                       ELSE tools
       IN IF cfg.enableWebSearch
          THEN withTime \o searchTools(cfg.webSearchProvider)
          ELSE withTime

\* initialize(config) with its initializeTimeServer and
\* initializeWebSearchServer calls
ToolsInitialize ==
  /\ calls < MaxCalls
  /\ calls' = calls + 1
  /\ \E cfg \in ConfigsOf(variant) :
       /\ initialize(cfg)
       /\ availableTools' = initializeTools(variant, cfg, availableTools)
  /\ UNCHANGED <<variant, pc, caller, message, sentHistory, shouldSearch,
                 timeQuery, searchResults, toolResults, searchCalls, timeCalls,
                 completionCalls, searchReply, completionReply, outbound,
                 failedAt, error, result>>
  /\ UNCHANGED <<messages, isLoading, isConnected, toast, lastSend,
                 initPending, openaiApiKey, panelVars>>
  /\ UNCHANGED <<sockets, backendConnection, serviceConfig, pendingMessages,
                 messageCounter, requests, toBackend, toClient,
                 clientSessions, handlers, braveMcpProcess, braveMcpTools,
                 rawSent>>

ToolsInit ==
  /\ variant \in ToolVariants /\ config = NoConfig /\ n8nService = FALSE
  /\ RunIdle /\ PageIdle
  /\ RelayIdle
  /\ braveMcpProcess = FALSE

SpecTools == ToolsInit /\ [][ToolsInitialize]_vars

----------------------------------------------------------------------------
(* Properties of sendMessage *)

\* C1: in every sendMessage the search provider is invoked only if the
\* classifier flagged search intent and config.enableWebSearch is true, and
\* the time tool only if the classifier flagged time intent and
\* config.enableTimeServer is true.
C1_DispatchOnlyWhenEnabled ==
  [][/\ (searchCalls' > searchCalls =>
           shouldSearch /\ config # NoConfig /\ config.enableWebSearch)
     /\ (timeCalls' > timeCalls =>
           timeQuery /\ config # NoConfig /\ config.enableTimeServer)]_vars

\* C2: every ChatResponse sendMessage returns has searchResults and tools
\* either absent or non-empty, on the direct path and on the webhook path.
C2_NoEmptyArrays ==
  pc = "done" =>
    /\ (result.hasSearchResults => Len(result.searchResults) > 0)
    /\ (result.hasTools => Len(result.tools) > 0)

SearchFailureKinds == {"network_error", "http_error", "parse_error"}

EmptyOrFallback == {<<>>, getFallbackResults, n8nFallbackResults}

\* C3: whatever the search provider does (network error, non-2xx status,
\* unparseable body, unknown provider identifier), the search step throws
\* nothing: the run goes on to the time and completion steps, with an empty
\* or fallback result list when the provider failed or is unknown.
C3_SearchNeverThrows ==
  [][searchCalls' > searchCalls =>
       /\ pc' = "time" /\ failedAt' = "none" /\ error' = NoError
       /\ (variant # "mock"
           /\ (searchReply'.kind \in SearchFailureKinds
               \/ config.webSearchProvider = "other")
           => searchResults' \in EmptyOrFallback)]_vars

\* the factory threw on an unknown provider and the run went on
C3_Witness ==
  /\ variant = "modular" /\ pc = "time" /\ searchCalls = 1
  /\ config.webSearchProvider = "other" /\ searchResults = <<>>

\* the run takes the webhook path of the n8n snapshot
OnWebhookPath ==
  variant = "n8n" /\ config # NoConfig /\ config.useN8nBackend /\ n8nService

\* the completion call failed: no answer, a non-2xx answer, or a 2xx answer
\* whose body has no choices to read
CompletionFailed ==
  /\ completionCalls = 1
  /\ \/ completionReply.net = "error"
     \/ ~Ok(completionReply.status)
     \/ completionReply.body \notin {"empty_choices", "no_content", "content"}

C5_ProviderErrorCarriesStatus ==
  (completionCalls = 1 /\ completionReply.net = "ok"
   /\ ~Ok(completionReply.status)) =>
    /\ pc = "failed"
    /\ error.name = "Error"
    /\ error.status = completionReply.status
    /\ error.text = IF completionReply.body = "error_with_message"
                    THEN "provider message" ELSE "Unknown error"

\* C6: when the completion endpoint answers 2xx, sendMessage resolves for
\* every response body, with choices[0].message.content when present and
\* with the fixed placeholder otherwise.
C6_ResponseOnEvery2xx ==
  (completionCalls = 1 /\ completionReply.net = "ok"
   /\ Ok(completionReply.status)) =>
    /\ pc = "done"
    /\ result.content = IF completionReply.body = "content"
                        THEN Reply ELSE Placeholder

----------------------------------------------------------------------------
(* Properties of the chat page *)

\* C7: when a send of the page fails, the conversation history afterwards is
\* exactly the history before the send plus the user's submitted message:
\* the user message stays and no assistant message is appended.
C7_FailedSendKeepsUserMessage ==
  lastSend.outcome = "rejected" =>
    messages = Append(lastSend.before, userMessage(lastSend.input))

----------------------------------------------------------------------------
(* Properties of the relay transport *)

\* the outcomes a request gets from a frame that carries its messageId
ResponseOutcomes == {"resolved", "rejected", "unknown_type"}

\* C8, as stated: a request that no response settled before its timer fired
\* is rejected with the timeout error and is no longer in pendingMessages.
C8_TimeoutUnlessResponse ==
  \A id \in MessageIds :
    (requests[id].timer = "fired"
     /\ requests[id].outcome \notin ResponseOutcomes) =>
      /\ requests[id].outcome = "timeout"
      /\ id \notin pendingMessages

\* C8, amended: when the timer of a request fires while the request is still
\* in pendingMessages, the request is rejected with the timeout error and
\* its entry is removed; when the request was settled before, by a response
\* or by disconnect(), the firing changes neither its outcome nor
\* pendingMessages.
C8_TimerRejectsOnlyPending ==
  [][\A id \in MessageIds :
       (requests[id].timer = "armed" /\ requests'[id].timer = "fired") =>
         IF id \in pendingMessages
         THEN /\ requests'[id].outcome = "timeout"
              /\ pendingMessages' = pendingMessages \ {id}
         ELSE /\ requests[id].outcome \in ResponseOutcomes \cup {"disconnected"}
              /\ requests'[id].outcome = requests[id].outcome
              /\ pendingMessages' = pendingMessages]_vars

\* one request timed out, and the timer of another one fired after
\* disconnect() and after a response had settled them
C8_Witness ==
  \E a, b \in MessageIds :
    /\ requests[a].outcome = "timeout" /\ a \notin pendingMessages
    /\ requests[b].outcome = "disconnected" /\ requests[b].timer = "fired"

\* C9: every frame the relay backend writes in reply to a USER_MESSAGE is an
\* ASSISTANT_RESPONSE or an ERROR that carries the messageId of that
\* USER_MESSAGE.
C9_RepliesEchoMessageId ==
  \A c \in Connections : \A i \in DOMAIN toClient[c] :
    toClient[c][i].trigger.type = "USER_MESSAGE" =>
      /\ toClient[c][i].type \in {"ASSISTANT_RESPONSE", "ERROR"}
      /\ toClient[c][i].messageId = toClient[c][i].trigger.messageId

\* two USER_MESSAGEs of one connection were answered in the reverse order,
\* one with an ERROR and one with an ASSISTANT_RESPONSE
C9_Witness ==
  \E c \in Connections :
    /\ Len(toClient[c]) = 2
    /\ toClient[c][1].trigger.type = "USER_MESSAGE"
    /\ toClient[c][2].trigger.type = "USER_MESSAGE"
    /\ toClient[c][1].messageId > toClient[c][2].messageId
    /\ toClient[c][2].messageId # NoId
    /\ toClient[c][1].type # toClient[c][2].type

\* the client takes the next frame of socket s
Delivered(s) ==
  /\ sockets[s].readyState = "OPEN" /\ sockets'[s].readyState = "OPEN"
  /\ toClient[s] # <<>>
  /\ toClient'[s] = Tail(toClient[s])

\* C10: a frame settles a pending request only if it carries that request's
\* messageId; a frame with no messageId, an unknown messageId or the id of a
\* request that is no longer pending settles nothing and leaves
\* pendingMessages unchanged.
C10_OnlyMatchingIdSettles ==
  [][\A s \in Sockets :
       Delivered(s) =>
         LET f == Head(toClient[s]) IN
         /\ \A id \in MessageIds :
              requests'[id].outcome # requests[id].outcome =>
                /\ f.messageId = id
                /\ id \in pendingMessages
                /\ requests'[id].outcome \in ResponseOutcomes
         /\ pendingMessages \ pendingMessages' \subseteq {f.messageId}
         /\ pendingMessages' \subseteq pendingMessages
         /\ (f.messageId = NoId \/ f.messageId \notin pendingMessages =>
               pendingMessages' = pendingMessages)]_vars

\* a response arrived for a request that had timed out, while another
\* request was pending, and that request is still pending
C10_Witness ==
  \E a, b \in MessageIds :
    /\ requests[a].outcome = "timeout" /\ requests[a].late
    /\ b \in pendingMessages

----------------------------------------------------------------------------
(* Properties of the prompt *)

\* the window the statement gives: 4 in PromptBuilder, 6 where sendMessage
\* builds the array itself
statedWindow(v) == IF v = "modular" THEN 4 ELSE 6

\* the window in the code of each snapshot
window(v) == IF v \in {"modular", "n8n"} THEN 4 ELSE 6

\* outbound is one system message, the last n entries of the history as
\* {role, content} in their order, and one final user message that says
\* the user's words
WellFormed(n) ==
  LET k == IF Len(sentHistory) < n THEN Len(sentHistory) ELSE n IN
  /\ Len(outbound) = k + 2
  /\ outbound[1].role = "system"
  /\ \A i \in 1..k :
       LET msg == sentHistory[Len(sentHistory) - k + i] IN
       /\ outbound[i + 1] = [role |-> msg.role, content |-> msg.content]
       /\ DOMAIN outbound[i + 1] = {"role", "content"}
  /\ outbound[k + 2].role = "user"
  /\ Includes(outbound[k + 2].content, message)

\* C11, as stated: the messages array of every completion request is one
\* system message, then the last N history entries (N = 4 in PromptBuilder,
\* 6 in the snapshots that build the array inside ChatService) as
\* {role, content} in their order, then one final user message.
C11_OutboundShape ==
  completionCalls = 1 => WellFormed(statedWindow(variant))

\* C11, amended: the same shape with N = 4 in PromptBuilder and in
\* buildMessagesWithSearchContext, and N = 6 in the sendMessage bodies that
\* build the array in place.
C11_OutboundShapePerBuilder ==
  completionCalls = 1 => WellFormed(window(variant))

\* buildMessagesWithSearchContext was given a history longer than its
\* window and the request carries the last four entries
C11_Witness ==
  /\ completionCalls = 1
  /\ Len(sentHistory) = MaxHistory
  /\ Len(outbound) = 6
  /\ variant = "n8n"
  /\ outbound[2].content = entryContent(MaxHistory - 3)

\* the request tells the model to say that no web search was performed
Discloses(msgs) ==
  \E i \in DOMAIN msgs :
    \/ Includes(msgs[i].content, <<NotaSinBusqueda>>)
    \/ Includes(msgs[i].content, <<ReglaSinResultados>>)

\* C12: whenever the classifier flagged search intent and the search result
\* list handed to PromptBuilder is empty, the messages it builds contain the
\* instruction to disclose that no web search was performed, with or
\* without tool results.
C12_DisclosesMissingSearch ==
  (variant = "modular" /\ completionCalls = 1
   /\ shouldSearch /\ searchResults = <<>>) => Discloses(outbound)

----------------------------------------------------------------------------
(* Properties of the classifiers *)

\* the run has classified its message
Classified ==
  pc \in {"search", "time", "complete", "done"} /\ ~OnWebhookPath

\* C13: for every message that contains '?', the classifier reports search
\* intent, whatever else the message contains.
C13_QuestionMarkWantsSearch ==
  (Classified /\ Includes(message, <<"?">>)) => shouldSearch

\* C14: the classifier reports time intent exactly when the message contains
\* a keyword of the time-keyword set; the empty message has none, and neither
\* the configuration nor the history changes the answer.
C14_TimeIntentIffKeyword ==
  Classified =>
    /\ timeQuery <=> \E kw \in timeKeywords : Includes(message, kw)
    /\ message = <<>> => ~timeQuery

C14_Witness ==
  /\ Classified /\ timeQuery /\ message = <<"hola", "hora">>
  /\ ~config.enableTimeServer

----------------------------------------------------------------------------
(* Properties of the search providers *)

\* the search call of the run has just returned
SearchReturned == pc = "time" /\ searchCalls = 1

\* C16: the HTML-scrape search never returns an empty list: a failed fetch,
\* a non-2xx status or an extraction with zero results gives the placeholder.
C16_ScrapeNeverEmpty ==
  (SearchReturned /\ config.webSearchProvider = "pskill9") =>
    searchResults # <<>>

\* C15: the Brave search returns the empty list when the API key is missing
\* (and then makes no HTTP request), when the response is not 2xx and when the
\* body cannot be parsed; it returns results only from a parsed 2xx response.
C15_BraveEmptyOnFailure ==
  (SearchReturned /\ config.webSearchProvider = "brave") =>
    /\ ~config.braveApiKey => (searchResults = <<>> /\ searchReply = NoReply)
    /\ searchReply.kind # "ok" => searchResults = <<>>

\* the provider values of results mapped from a real provider's response
GenuineProviders ==
  {"Brave Search API", "pskill9 Google Scraping",
   "pskill9/web-search (Google scraping)"}

\* the search call got a response from which results were extracted
RealResults == searchReply.kind = "ok" /\ searchReply.n > 0

\* C17: no result produced without a successful real provider call carries
\* the provider value of a result mapped from a real provider response.
C17_FallbackDistinguishable ==
  (SearchReturned /\ ~RealResults) =>
    \A i \in DOMAIN searchResults :
      searchResults[i].provider \notin GenuineProviders

----------------------------------------------------------------------------
(* Properties of the order of a run *)

\* the steps a run may take one after the other
RunOrder ==
  {<<"idle", "search">>, <<"idle", "n8n">>, <<"idle", "failed">>,
   <<"search", "time">>, <<"time", "complete">>,
   <<"complete", "done">>, <<"complete", "failed">>,
   <<"n8n", "done">>, <<"n8n", "failed">>,
   <<"done", "idle">>, <<"failed", "idle">>}

\* the search and time calls the run's message and configuration ask for
\* have been made
DispatchedCallsFinished ==
  /\ (shouldSearch /\ (variant = "mock" \/ config.enableWebSearch))
       => searchCalls = 1
  /\ (timeQuery /\ config.enableTimeServer) => timeCalls = 1

\* C20: a run classifies, then dispatches search and time, then builds the
\* prompt, then completes: the completion request is issued after every
\* dispatched search and time call has finished and at most once per message,
\* and the run ends either with a ChatResponse or with an error, never both.
C20_RunOrder ==
  [][/\ pc' # pc => <<pc, pc'>> \in RunOrder
     /\ searchCalls' > searchCalls => (pc = "search" /\ completionCalls = 0)
     /\ timeCalls' > timeCalls => (pc = "time" /\ completionCalls = 0)
     /\ completionCalls' > completionCalls =>
          /\ pc = "complete" /\ completionCalls = 0
          /\ DispatchedCallsFinished
          /\ outbound' # <<>>
     /\ pc' = "done" => (result' # NoResult /\ error' = NoError)
     /\ pc' = "failed" => (result' = NoResult /\ error' # NoError)]_vars

C20_Witness ==
  /\ pc = "done" /\ result # NoResult
  /\ searchCalls = 1 /\ timeCalls = 1 /\ completionCalls = 1

----------------------------------------------------------------------------
(* Properties of the configuration panel *)

NonBlankText(t) == t \notin {"", " "}

\* the credentials the selected features require are present in c
Required(c) ==
  /\ has(c, "openaiApiKey") /\ NonBlankText(c.openaiApiKey)
  /\ (truthy(c, "enableWebSearch") /\ has(c, "webSearchProvider")
      /\ c.webSearchProvider = "brave")
       => (has(c, "braveApiKey") /\ NonBlankText(c.braveApiKey))

\* C18: the panel hands a Config to onSave only with a non-blank OpenAI key
\* and, with web search enabled on the Brave provider, a non-blank Brave key;
\* a save attempt that is refused leaves the stored configuration unchanged.
C18_OnSaveOnlyWhenValid ==
  [][/\ onSaveArg' # NotCalled => Required(onSaveArg')
     /\ toast' = "Configuración incompleta"
          => UNCHANGED <<indexConfig, localStorage, onSaveArg>>]_vars

C18_Witness ==
  /\ onSaveArg # NotCalled /\ braveSelected(onSaveArg)
  /\ indexConfig = onSaveArg /\ toast = "Configuración guardada"

\* the fields the page is to persist: the key, the model, the feature toggle
PersistedFields == {"openaiApiKey", "model", "enableWebSearch"}

\* C19: after a save and a reload, every persisted field read at startup has
\* the value given to the last successful save.
C19_ReloadYieldsSaved ==
  (atStartup /\ onSaveArg # NotCalled) =>
    \A f \in PersistedFields \cap DOMAIN onSaveArg :
      has(indexConfig, f) /\ indexConfig[f] = onSaveArg[f]

----------------------------------------------------------------------------
(* Properties of the conversation history *)

\* the history grew by one message at its end and is otherwise as it was
AppendedOne ==
  /\ Len(messages') = Len(messages) + 1
  /\ SubSeq(messages', 1, Len(messages)) = messages

\* C21: the conversation history is append-only: no step removes, reorders
\* or rewrites a message; a send that completes appends exactly one assistant
\* message, when it completes, and nothing else appends one.
C21_HistoryAppendOnly ==
  [][/\ messages' = messages \/ AppendedOne
     /\ (AppendedOne /\ messages'[Len(messages')].role = "assistant")
          => /\ pc = "done" /\ caller = "page" /\ result # NoResult
             /\ messages'[Len(messages')].content = result.content
     /\ (pc = "done" /\ caller = "page" /\ pc' # pc)
          => (AppendedOne /\ messages'[Len(messages')].role = "assistant")
     /\ (pc = "failed" /\ caller = "page" /\ pc' # pc)
          => messages' = messages]_vars

C21_Witness ==
  /\ Len(messages) = 4 /\ lastSend.outcome = "resolved"
  /\ messages[1].role = "user" /\ messages[2].role = "assistant"
  /\ messages[3].role = "user" /\ messages[4].role = "assistant"

----------------------------------------------------------------------------
(* Properties of the connection handshake *)

\* C22: an initialize call whose handshake neither opens nor errors does not
\* stay pending forever: a handshake timer ends it with a timeout error.
C22_HandshakeSettles ==
  \A s \in Sockets :
    (sockets[s].init = "pending") ~> (sockets[s].init # "pending")

\* an INIT has been written to connection s: it is in flight or the backend
\* took the model from it
InitSentOn(s) ==
  \/ \E i \in DOMAIN toBackend[s] : toBackend[s][i].type = "INIT"
  \/ clientSessions[s] = RelayConfig.model

\* C23: on every relay connection the client sends INIT before any
\* USER_MESSAGE: no USER_MESSAGE is written to a socket on which INIT has not
\* been sent first.
C23_InitBeforeUserMessage ==
  [][\A s \in Sockets :
       (/\ Len(toBackend'[s]) > Len(toBackend[s])
        /\ toBackend'[s][Len(toBackend'[s])].type = "USER_MESSAGE")
         => InitSentOn(s)]_vars

C23_Witness ==
  \E s \in Sockets :
    /\ Len(toBackend[s]) = 2
    /\ toBackend[s][1].type = "INIT" /\ toBackend[s][2].type = "USER_MESSAGE"

(* Properties of the backend's tool calls *)

\* the run of the 'message' handler that h has become after the step
After(h) == {g \in handlers' : g.run = h.run /\ g.pc # h.pc}

\* the step writes an invoke message for the handler h
SendsInvoke(h) == \E g \in After(h) : g.invokes > h.invokes

\* the step ends the handler h with the frame f as its reply, which reaches
\* the client unless its connection is gone
EndsWith(h, f) ==
  /\ After(h) = {} /\ h \notin handlers'
  /\ toClient' = wsSend(h.ws, f)
  /\ clientSessions[h.ws] # "absent" => toClient' # toClient

\* an invoke is written only by a handler whose first completion call has
\* just answered with a call of a listed tool, and only while the subprocess
\* is there and the tool list is not empty; no handler writes a second
\* invoke or makes a third completion call
InvokeGuarded ==
  /\ \A h \in handlers :
        SendsInvoke(h) =>
          /\ h.pc = "completion" /\ braveMcpProcess /\ braveMcpTools
          /\ \A g \in After(h) : g.assistantMessage = "tool_call"
  /\ \A h \in handlers' : h.invokes <= 1 /\ h.completions <= 2

\* C24 as stated: an invoke goes to the tool subprocess only when the
\* completion asked for a tool, the subprocess is alive and the tool is in
\* the discovered list; there is at most one invoke and there are at most
\* two completion calls for one USER_MESSAGE; and after a successful invoke
\* the reply to the client is the content of the second completion call
C24_ReplyIsSecondContent ==
  [][/\ InvokeGuarded
     /\ \A h \in handlers :
          (h.pc = "second_completion" /\ h \notin handlers')
            => EndsWith(h, AssistantReply(h, "final_content"))]_vars

\* C24, amended: the same, but after a successful invoke the reply is the
\* content of the second completion call when that call succeeds (an
\* ASSISTANT_RESPONSE, which has no content when the answer has none), and
\* an ERROR when the second call fails
C24_InvokeOnlyForListedTool ==
  [][/\ InvokeGuarded
     /\ \A h \in handlers :
          (h.pc = "second_completion" /\ h \notin handlers')
            => \/ EndsWith(h, AssistantReply(h, "final_content"))
               \/ EndsWith(h, AssistantReply(h, "no_content"))
               \/ EndsWith(h, ErrorReply(h))]_vars

\* a handler that has written its invoke, got the tool's result and made
\* its second completion call
C24_Witness ==
  \E h \in handlers :
    h.pc = "second_completion" /\ h.invokes = 1 /\ h.completions = 2

(* Properties of the backend's replies *)

\* the frame the backend takes from a connection in this step, if any
Received(c) ==
  IF toBackend[c] # <<>> /\ toBackend'[c] = Tail(toBackend[c])
  THEN {Head(toBackend[c])} ELSE {}

\* a USER_MESSAGE whose payload has a string as content
ValidUserMessage(f) == f.type = "USER_MESSAGE" /\ f.content = "string"

\* the replies a handler can end with
Replies(h) ==
  {ErrorReply(h)} \cup
  {AssistantReply(h, p) : p \in {"content", "final_content", "no_content"}}

\* a valid USER_MESSAGE starts one run of the handler and is not answered
\* yet; a run that goes on to its next await writes nothing; a run that ends
\* writes one reply, an ASSISTANT_RESPONSE or an ERROR, and no two runs end
\* in one step
OneReplyPerRun ==
  /\ \A c \in Connections : \A f \in Received(c) :
        ValidUserMessage(f) /\ clientSessions[c] # "absent"
          => /\ toClient' = toClient
             /\ \E h \in handlers' \ handlers :
                  /\ handlers' = handlers \cup {h}
                  /\ h.ws = c /\ h.trigger.messageId = f.messageId
  /\ \A h \in handlers :
        \/ h \in handlers'
        \/ After(h) # {} /\ toClient' = toClient
        \/ /\ \E f \in Replies(h) : EndsWith(h, f)
           /\ handlers' = handlers \ {h}
           /\ \A c \in Connections :
                /\ Len(toClient'[c]) <= Len(toClient[c]) + 1
                /\ c # h.ws => toClient'[c] = toClient[c]

LateClose(t) ==
  sockets[t].readyState = "CLOSING" /\ sockets'[t].readyState = "CLOSED"

\* C26: after disconnect() and a new initialize(), the events of the
\* discarded socket never clear the service's reference to the connection
\* the new initialize() made, in whatever order they arrive, so that the
\* service holds the new socket once it is open and its INIT is not
\* suppressed
C26_LateCloseKeepsReference ==
  [][\A t \in Sockets :
       (LateClose(t) /\ backendConnection \notin {NoSocket, t})
         => backendConnection' = backendConnection]_vars

(* Properties of the pending requests *)

\* the requests that were sent and whose promise is not settled
Unsettled == {id \in MessageIds : requests[id].outcome = "pending"}

Settled(id) == requests[id].outcome \notin {"unsent", "pending"}

\* the step is a call of disconnect(): it is the only step that settles a
\* request as disconnected or drops the reference to a socket it set closing
IsDisconnect ==
  \/ \E id \in MessageIds :
       requests[id].outcome = "pending"
       /\ requests'[id].outcome = "disconnected"
  \/ \E t \in Sockets :
       sockets[t].readyState \in {"CONNECTING", "OPEN"}
       /\ sockets'[t].readyState = "CLOSING"

\* C27: pendingMessages holds exactly the ids of the requests that were sent
\* and are not settled; a send takes an id no request had before; a request
\* that is settled (by its response, its timer or disconnect()) stays as it
\* was settled and its id is out of the map; and disconnect() leaves the map
\* empty with every request that was pending rejected
C27_PendingIsUnsettled ==
  /\ [](pendingMessages = Unsettled)
  /\ [][/\ messageCounter' >= messageCounter
        /\ \A id \in MessageIds :
             /\ (requests[id].outcome = "unsent"
                 /\ requests'[id].outcome # "unsent")
                  => /\ id = messageCounter /\ messageCounter' = id + 1
                     /\ requests'[id].outcome = "pending"
             /\ Settled(id)
                  => /\ requests'[id].outcome = requests[id].outcome
                     /\ id \notin pendingMessages'
        /\ IsDisconnect
             => /\ pendingMessages' = {}
                /\ \A id \in pendingMessages :
                     requests'[id].outcome = "disconnected"]_vars

\* disconnect() has rejected one request after another one was answered,
\* and the timer of the rejected request has fired since
C27_Witness ==
  /\ pendingMessages = {}
  /\ \E id, other \in MessageIds :
       /\ requests[id].outcome = "disconnected"
       /\ requests[id].timer = "fired"
       /\ requests[other].outcome = "resolved"

(* Properties of the page's sends *)

\* the sends of the relay page whose sendMessage call has not settled
InFlight ==
  {id \in MessageIds :
     requests[id].caller = "page" /\ requests[id].outcome = "pending"}

\* C28: the page has at most one send in flight: while a send is pending
\* the guard of handleSendMessage turns every further submit away
C28_OneSendInFlight == Cardinality(InFlight) <= 1

(* Properties of the tool list *)

\* the tools of a configuration: the time tools if the time server is
\* enabled, and the provider's search tools if web search is
toolsOf(cfg) ==
  (IF cfg.enableTimeServer THEN timeTools ELSE <<>>)
  \o (IF cfg.enableWebSearch THEN searchTools(cfg.webSearchProvider)
      ELSE <<>>)

\* C29: after any number of initialize calls the tool list holds each tool
\* of the current configuration exactly once and no other tool
C29_ToolsOfCurrentConfigOnce ==
  config # NoConfig =>
    /\ \A i, j \in DOMAIN availableTools :
         availableTools[i] = availableTools[j] => i = j
    /\ {availableTools[i] : i \in DOMAIN availableTools}
         = {toolsOf(config)[i] : i \in DOMAIN toolsOf(config)}

(* Properties of the backend's sessions *)

\* C30: a USER_MESSAGE is processed with the model of its connection's
\* session, which is the model of the last INIT that connection sent with a
\* model, or gpt-4o-mini if there was none; the run keeps that model to its
\* end; and a connection's session changes only by an INIT received on that
\* connection, by its connecting (to gpt-4o-mini) and by its closing (when
\* its entry goes away)
C30_ModelPerConnection ==
  [][/\ \A h \in handlers' \ handlers :
          \/ \E g \in handlers : g.run = h.run /\ g.model = h.model
          \/ /\ \A g \in handlers : g.run # h.run
             /\ h.model = clientSessions[h.ws]
             /\ h.model # "absent"
     /\ \A c \in Connections :
          LET inits == {f \in Received(c) :
                          f.type = "INIT" /\ f.model # "none"}
          IN IF clientSessions[c] = "absent"
             THEN clientSessions'[c] \in {"absent", DefaultModel}
             ELSE \/ clientSessions'[c] = "absent"
                  \/ \E f \in inits : clientSessions'[c] = f.model
                  \/ inits = {} /\ clientSessions'[c] = clientSessions[c]]_vars

\* one connection has sent an INIT with a model and then a USER_MESSAGE,
\* which is processed with that model, while the session of another
\* connection still has the default model
C30_Witness ==
  \E h \in handlers : \E d \in Connections \ {h.ws} :
    /\ h.model = RelayConfig.model /\ clientSessions[h.ws] = h.model
    /\ clientSessions[d] = DefaultModel

====
